---- MODULE Spec2Model ----
(***************************************************************************)
(* Model of the Clover synchronisation engine of supplement-pos-backend:   *)
(*   - fetchPaged                (services/productService.js)              *)
(*   - requestWithRetry          (services/cloverService.js, retry layer)  *)
(*   - SyncService.performFullSync and its three phases                    *)
(*                               (services/syncService.js)                 *)
(*   - the handlers of POST /api/sync/full and POST /api/sync/orders       *)
(*                               (routes/sync.js)                          *)
(*   - OrderService.syncOrders   (services/orderService.js)                *)
(* The relational store is PostgreSQL (README.md): a statement that fails  *)
(* inside a transaction block leaves the block aborted, every later        *)
(* statement of the block fails, and COMMIT of an aborted block rolls it   *)
(* back.                                                                   *)
(***************************************************************************)
EXTENDS Integers, Sequences, FiniteSets, TLC

\* ---------------------------------------------------------------- bounds
\* page size handed to fetchPaged ({ limit: 100 } in the code), scaled down
PageLimit == 2
\* largest remote collection
MaxRecords == 4
\* cap on the HTTP requests of one requestWithRetry call
MaxRequests == 6
\* number of orders the remote merchant has
MaxOrders == 2
\* number of POST /api/sync/orders requests served
MaxRuns == 2
\* inventory quantities range over -MaxQty..MaxQty
MaxQty == 6
\* length of the value of VERCEL_BASE_URL
MaxUrlLen == 2
\* external ids of the delivered records
MaxKeys == 2
\* number of upsert statements executed
MaxStatements == 3

\* ------------------------------------------------------------- constants
DefaultTries == 4
DefaultBaseMs == 300

Phases == {"categories", "products", "inventory"}

\* statuses the remote answers a page request of fetchPaged with
FetchStatuses == {200, 401, 500}
\* statuses the remote answers a request of requestWithRetry with
RetryStatuses == {200, 404, 408, 429, 500, 503}

VARIABLES
  isCloverEnabled,  \* SyncService.isCloverEnabled
  tokenRow,         \* clover_tokens row of the merchant: "none", "expired", "valid"
  merchantRow,      \* merchants row: "missing", "nocloverid", "ok"
  remote,           \* remote[ph]: number of records of the phase's collection
  pc,               \* position of performFullSync
  phase,            \* phase being run
  offset,           \* fetchPaged: offset
  items,            \* fetchPaged: length of the page in hand
  idx,              \* handler: index of the next record of the page
  tx,               \* transaction block of the phase's connection
  pending,          \* rows written in the open transaction block
  committed,        \* committed[ph]: external ids with a committed row
  processed,        \* processed[ph]
  errors,           \* errors[ph]
  phaseStatus,      \* "idle", "running", "ok", "failed"
  err,              \* error being thrown
  report,           \* value returned by performFullSync
  reqLog,           \* history: page requests of each phase
  handled,          \* history: handler invocations of each phase
  procLog,          \* history: records the handler worked on, in order
  violated,         \* history: records whose statement violated a constraint
  upserted,         \* history: records whose upsert statement succeeded
  categoryIdSent,   \* history: category_id parameter of each product upsert
  txBegun,          \* history: BEGIN statements of each phase
  dbConnects,       \* history: db.connect() calls
  tokenReads,       \* history: reads of clover_tokens
  rpc,              \* requestWithRetry: position
  rtries,           \* requestWithRetry: tries
  rbase,            \* requestWithRetry: baseMs
  attempt,          \* requestWithRetry: attempt
  rlog,             \* history: statuses received
  rdelays,          \* history: delays slept
  vercelBaseUrl,    \* process.env.VERCEL_BASE_URL
  route,            \* POST /api/sync/full: position of the handler
  resp,             \* the response the handler sent
  outbound,         \* history: requests sent to the upstream deployment
  run,              \* POST /api/sync/orders requests received; the clock
  opc,              \* position of the orders handler and of syncOrders
  prune,            \* syncOrders: options.prune
  cloverOrders,     \* the remote order collection during the run
  ordOffset,        \* fetchPaged of syncOrders: offset
  ordIdx,           \* handler of syncOrders: index into the page in hand
  cloverOrderIds,   \* syncOrders: cloverOrderIds
  ordCounts,        \* syncOrders: processed, inserted, updated
  ordErrors,        \* syncOrders: errors (the order each entry names)
  transactions,     \* table transactions, by row
  transactionItems, \* table transaction_items, by transaction
  ordReqs,          \* history: page requests of the run
  lastTx,           \* history: the latest order transaction of the run
  paidSeen,         \* history: orders a committed upsert saw as PAID
  repeatRun,        \* history: this run repeats the run before it
  invRow,           \* getInventory: on_hand and reorder_level of the joined row
  stockStatus,      \* getInventory: the status column of the result row
  tables,           \* upserts: the rows of each table, in insertion order
  statements,       \* upserts: number of upsert statements executed
  envelope,         \* fetchPaged: a response body and what is made of it
  store,            \* concurrent runs: the committed order rows, the remote
                    \* collection and the checkouts under way
  syncRun,          \* concurrent runs: the locals of each syncOrders call
  stored,           \* inventory: the table's schema, the stored quantity
                    \* of a product and the last write request
  conn              \* one pooled connection: the function that took it,
                    \* where it is, and what was sent over it

syncVars == <<isCloverEnabled, tokenRow, merchantRow, remote, pc, phase, offset,
              items, idx, tx, pending, committed, processed, errors, phaseStatus,
              err, report, reqLog, handled, procLog, violated, upserted, categoryIdSent,
              txBegun, dbConnects, tokenReads>>
retryVars == <<rpc, rtries, rbase, attempt, rlog, rdelays>>
routeVars == <<vercelBaseUrl, route, resp, outbound>>
orderVars == <<run, opc, prune, cloverOrders, ordOffset, ordIdx, cloverOrderIds,
               ordCounts, ordErrors, transactions, transactionItems, ordReqs,
               lastTx, paidSeen, repeatRun>>
stockVars == <<invRow, stockStatus>>
upsertVars == <<tables, statements>>
sideVars == <<envelope, store, syncRun, stored, conn>>
vars == <<syncVars, retryVars, routeVars, orderVars, stockVars, upsertVars, sideVars>>

\* ---------------------------------------------------------------- values
Min(a, b) == IF a < b THEN a ELSE b

RECURSIVE Pow2(_)
Pow2(n) == IF n <= 0 THEN 1 ELSE 2 * Pow2(n - 1)

NoError == [kind |-> "none", status |-> 0, rec |-> 0]
Error(kind, status, rec) == [kind |-> kind, status |-> status, rec |-> rec]

ZeroCounts == [ph \in Phases |-> 0]
NoErrors == [ph \in Phases |-> <<>>]
NoReport == [success |-> FALSE, enabled |-> FALSE, message |-> "none",
             error |-> NoError, processed |-> ZeroCounts, errors |-> NoErrors]

\* ------------------------------------------------------ the remote source
\* length of the page the remote returns for (offset, limit)
PageLen(total, off, limit) ==
  IF off >= total THEN 0 ELSE Min(limit, total - off)

\* ----------------------------------------------------------- fetchPaged
\* axios: validateStatus: s => s < 500; a response it rejects makes
\* http.get throw
ValidateStatus(s) == s < 500

\* if (!items.length) break;
PageIsEmpty_Never(len) == FALSE
PageIsEmpty(len) == len = 0

\* if (items.length < limit) break;
ShortPage_Inclusive(len, limit) == len <= limit
ShortPage(len, limit) == len < limit

\* ------------------------------------------------------ performFullSync
isEnabled_AlwaysOn == TRUE
isEnabled == isCloverEnabled

FirstPhase == "categories"

NextPhase_Swapped(ph) ==
  CASE ph = "categories" -> "inventory"
    [] ph = "inventory" -> "products"
    [] OTHER -> "none"
NextPhase(ph) ==
  CASE ph = "categories" -> "products"
    [] ph = "products" -> "inventory"
    [] OTHER -> "none"

DisabledReport ==
  [success |-> TRUE, enabled |-> FALSE, message |-> "Clover sync is disabled",
   error |-> NoError, processed |-> ZeroCounts, errors |-> NoErrors]

ErrorReport_Success(e) ==
  [success |-> TRUE, enabled |-> TRUE, message |-> "none", error |-> NoError,
   processed |-> ZeroCounts, errors |-> NoErrors]
ErrorReport(e) ==
  [success |-> FALSE, enabled |-> TRUE, message |-> "none", error |-> e,
   processed |-> ZeroCounts,
   errors |-> [NoErrors EXCEPT !["categories"] = <<e>>]]

SuccessReport ==
  [success |-> TRUE, enabled |-> TRUE,
   message |-> "Full sync completed successfully", error |-> NoError,
   processed |-> processed, errors |-> errors]

\* the environment and the database rows a request finds
SyncConfig ==
  /\ isCloverEnabled \in BOOLEAN
  /\ tokenRow \in {"none", "expired", "valid"}
  /\ merchantRow \in {"missing", "nocloverid", "ok"}

\* no product upsert has carried a category_id for the item yet
NotSent == -1

\* the locals of performFullSync and of its phases before the call
SyncFresh ==
  /\ phase = "none"
  /\ offset = 0
  /\ items = 0
  /\ idx = 0
  /\ tx = "none"
  /\ pending = {}
  /\ committed = [ph \in Phases |-> {}]
  /\ processed = ZeroCounts
  /\ errors = NoErrors
  /\ phaseStatus = [ph \in Phases |-> "idle"]
  /\ err = NoError
  /\ report = NoReport
  /\ reqLog = [ph \in Phases |-> <<>>]
  /\ handled = [ph \in Phases |-> <<>>]
  /\ procLog = [ph \in Phases |-> <<>>]
  /\ violated = [ph \in Phases |-> {}]
  /\ upserted = [ph \in Phases |-> {}]
  /\ categoryIdSent = [id \in 1..MaxRecords |-> NotSent]
  /\ txBegun = ZeroCounts
  /\ dbConnects = 0
  /\ tokenReads = 0

SyncInit ==
  /\ SyncConfig
  /\ remote \in [Phases -> 0..MaxRecords]
  /\ pc = "start"
  /\ SyncFresh

RetryIdle ==
  /\ rpc = "idle"
  /\ rtries = DefaultTries
  /\ rbase = DefaultBaseMs
  /\ attempt = 0
  /\ rlog = <<>>
  /\ rdelays = <<>>

\* ---------------------------------------------- values of the sync routes
\* SQL NULL and the JavaScript null
Null == 0

\* an environment variable: not set (undefined), or a string, kept as
\* the sequence of its characters; " " is white space, "u" any other
\* character
EnvChars == {" ", "u"}
Unset == [set |-> FALSE, chars |-> <<>>]
SetTo(chars) == [set |-> TRUE, chars |-> chars]

\* the strings of at most n characters
RECURSIVE Strings(_)
Strings(n) ==
  IF n = 0 THEN {<<>>}
  ELSE LET shorter == Strings(n - 1)
       IN shorter \cup {Append(str, c) : str \in shorter, c \in EnvChars}

\* values of VERCEL_BASE_URL: every string of at most MaxUrlLen characters
EnvValues == {Unset} \cup {SetTo(str) : str \in Strings(MaxUrlLen)}

\* values of VERCEL_BASE_URL: not set, or the base URL of the deployment
VercelBaseUrls == {Unset, SetTo(<<"u">>)}

\* statuses the upstream deployment answers the proxied request with;
\* 0 stands for no response (network error)
UpstreamStatuses == {0, 200, 500}

NoResp ==
  [status |-> 0, kind |-> "none", success |-> FALSE, enabled |-> FALSE,
   processed |-> 0, inserted |-> 0, updated |-> 0, marked_for_delete |-> 0,
   unmatched |-> 0, error |-> "none"]

\* res.json({ success: true, message: 'Clover sync is currently disabled',
\*            enabled: false, ...zero counts })
StubResp ==
  [NoResp EXCEPT !.status = 200, !.kind = "stub", !.success = TRUE]

\* ----------------------------------------------- values of the order sync
OrderIds == 1..MaxOrders

\* key of a transactions row without a Clover order: clover_order_id IS NULL
LocalKey == 0

\* key of the row of an order that was synced once, then left the remote
\* collection and was marked by an earlier sync with prune=true; a
\* later sweep may deliver the order again
GoneKey == MaxOrders

RowKeys == OrderIds \cup {LocalKey, GoneKey}

\* the primary key of the local row of an external id (categories.id,
\* products.id): a value of its own, not the external id
LocalIdBase == 100
LocalId(cloverId) == LocalIdBase + cloverId

\* the Clover items that have a row in the local products table when the
\* orders are synced
ProductItemIds == {1}

\* the remote order records the model draws from: order.state,
\* order.paymentState, order.total and, of each element of
\* lineItems.elements, its price and its item id (li.item?.id): item 1
\* has a local product, item 2 has none, the last line item names no item
OrderShapes ==
  << [state |-> "open", paymentState |-> "OPEN", total |-> 10,
      lineItems |-> <<[price |-> 10, item |-> 1]>>],
     [state |-> "locked", paymentState |-> "PAID", total |-> 15,
      lineItems |-> <<[price |-> 5, item |-> 2],
                      [price |-> 5, item |-> Null]>>] >>

\* the line item of the rows that are there before the first sync
CheckoutItem ==
  [unit_price_cents |-> 10, clover_item_id |-> 1, product_id |-> LocalId(1)]

NoRow ==
  [present |-> FALSE, clover_order_id |-> Null, status |-> "none",
   subtotal_cents |-> 0, tax_cents |-> 0, discount_cents |-> 0,
   total_cents |-> 0, completed_at |-> Null]

\* a transaction that has no Clover order (clover_order_id is nullable)
LocalRow ==
  [present |-> TRUE, clover_order_id |-> Null, status |-> "open",
   subtotal_cents |-> 10, tax_cents |-> 0, discount_cents |-> 0,
   total_cents |-> 10, completed_at |-> Null]

\* the row an earlier prune left behind
GoneRow ==
  [present |-> TRUE, clover_order_id |-> GoneKey, status |-> "delete",
   subtotal_cents |-> 10, tax_cents |-> 0, discount_cents |-> 0,
   total_cents |-> 10, completed_at |-> Null]

NoOrder ==
  [id |-> 0, state |-> "none", paymentState |-> "none", total |-> 0,
   lineItems |-> <<>>]

NoTx ==
  [id |-> 0, failAt |-> "none", order |-> NoOrder, oldRow |-> NoRow,
   oldItems |-> <<>>]

ZeroOrdCounts == [processed |-> 0, inserted |-> 0, updated |-> 0]

RouteIdle ==
  /\ vercelBaseUrl = Unset
  /\ route = "idle"
  /\ resp = NoResp
  /\ outbound = 0

\* the order tables before the first order sync, and the locals of
\* syncOrders before a call
OrderFresh ==
  /\ run = 0
  /\ prune = FALSE
  /\ cloverOrders = <<>>
  /\ ordOffset = 0
  /\ ordIdx = 0
  /\ cloverOrderIds = {}
  /\ ordCounts = ZeroOrdCounts
  /\ ordErrors = <<>>
  /\ transactions = [k \in RowKeys |->
        CASE k = LocalKey -> LocalRow [] k = GoneKey -> GoneRow [] OTHER -> NoRow]
  /\ transactionItems = [k \in RowKeys |->
        IF k \in {LocalKey, GoneKey} THEN <<CheckoutItem>> ELSE <<>>]
  /\ ordReqs = 0
  /\ lastTx = NoTx
  /\ paidSeen = {}
  /\ repeatRun = FALSE

OrderIdle == opc = "idle" /\ OrderFresh

\* ------------------------------------------------ values of getInventory
\* a nullable integer column
SqlNull == [null |-> TRUE, val |-> 0]
SqlInt(n) == [null |-> FALSE, val |-> n]

Quantities == {SqlNull} \cup {SqlInt(n) : n \in (0 - MaxQty)..MaxQty}

StockIdle ==
  /\ invRow = [on_hand |-> SqlNull, reorder_level |-> SqlNull]
  /\ stockStatus = "none"

\* ---------------------------------------------- values of the upserts
\* the tables the syncs upsert into by (merchant_id, external id)
UpsertTables == {"categories", "products", "transactions"}

UpsertIdle ==
  /\ tables = [t \in UpsertTables |-> <<>>]
  /\ statements = 0

\* ------------------------------------------ values of the response body
\* no response has been read; a body is null, a bare array or an object,
\* and each of its fields elements and items is absent, something that
\* is no array ("other"), or an array
EnvelopeIdle ==
  envelope = [pc |-> "idle",
              body |-> [kind |-> "null", arr |-> <<>>,
                        elements |-> [tag |-> "absent", val |-> <<>>],
                        items |-> [tag |-> "absent", val |-> <<>>]],
              items |-> <<>>, handed |-> <<>>, called |-> FALSE,
              last |-> FALSE]

\* the two calls of syncOrders that run at the same time
Runs == {1, 2}

\* no transactions row for an order id
NoLocal == [present |-> FALSE, status |-> "none", items |-> <<>>]

\* the locals of a call of syncOrders that has not started, and what its
\* open transaction has written: the status of the order row, the line
\* items it deleted (by the connection that had inserted them) and those
\* it inserted
NoRun ==
  [pc |-> "idle", prune |-> FALSE, offset |-> 0, page |-> <<>>, idx |-> 0,
   seen |-> {}, status |-> "none", gone |-> {}, added |-> <<>>,
   unmatched |-> {}]

\* no order sync runs beside another
RunsIdle ==
  /\ store = [rows |-> [k \in OrderIds |-> NoLocal],
              upstream |-> [k \in OrderIds |-> 0],
              created |-> {}, changed |-> FALSE]
  /\ syncRun = [p \in Runs |-> NoRun]

\* the inventory row of the product as the migration made it
LevelIdle ==
  stored = [schema |-> "on_hand", qty |-> 0, op |-> "none",
           arg |-> 0]

\* no connection has been taken from the pool
ConnIdle ==
  conn = [kind |-> "none", pc |-> "idle", tx |-> "none", total |-> 0,
          offset |-> 0, left |-> 0, k |-> 0, log |-> <<>>]

SideIdle ==
  /\ EnvelopeIdle
  /\ RunsIdle
  /\ LevelIdle
  /\ ConnIdle

Init ==
  /\ SyncInit
  /\ RetryIdle
  /\ RouteIdle
  /\ OrderIdle
  /\ StockIdle
  /\ UpsertIdle
  /\ SideIdle

\* performFullSync, feature toggle off: the stubbed report
ReturnDisabled ==
  /\ pc = "start"
  /\ ~isEnabled
  /\ report' = DisabledReport
  /\ pc' = "done"
  /\ UNCHANGED <<isCloverEnabled, tokenRow, merchantRow, remote, phase, offset,
                 items, idx, tx, pending, committed, processed, errors,
                 phaseStatus, err, reqLog, handled, procLog, violated, upserted, categoryIdSent, txBegun,
                 dbConnects, tokenReads>>

\* if (result.rows.length === 0)
TokenMissing(row) == row = "none"

\* if (tokenInfo.expires_at && new Date() > new Date(tokenInfo.expires_at))
TokenExpired_Never(row) == FALSE
TokenExpired(row) == row = "expired"

\* the messages of the configuration errors
ConfigErrors ==
  {"No Clover token found for merchant", "Clover access token has expired",
   "Merchant not found", "No Clover merchant ID associated with this merchant"}

\* getMerchantCloverToken
GetMerchantCloverToken ==
  /\ pc = "start"
  /\ isEnabled
  /\ dbConnects' = dbConnects + 1
  /\ tokenReads' = tokenReads + 1
  /\ IF TokenMissing(tokenRow)
       THEN /\ err' = Error("No Clover token found for merchant", 0, 0)
            /\ pc' = "failed"
       ELSE IF TokenExpired(tokenRow)
         THEN /\ err' = Error("Clover access token has expired", 0, 0)
              /\ pc' = "failed"
         ELSE /\ err' = err
              /\ pc' = "merchant"
  /\ UNCHANGED <<isCloverEnabled, tokenRow, merchantRow, remote, phase, offset,
                 items, idx, tx, pending, committed, processed, errors,
                 phaseStatus, report, reqLog, handled, procLog, violated, upserted, categoryIdSent,
                 txBegun>>

\* the lookup of merchants.clover_merchant_id
GetCloverMerchantId ==
  /\ pc = "merchant"
  /\ dbConnects' = dbConnects + 1
  /\ IF merchantRow = "missing"
       THEN /\ err' = Error("Merchant not found", 0, 0)
            /\ pc' = "failed"
            /\ phase' = phase
       ELSE IF merchantRow = "nocloverid"
         THEN /\ err' = Error("No Clover merchant ID associated with this merchant", 0, 0)
              /\ pc' = "failed"
              /\ phase' = phase
         ELSE /\ err' = err
              /\ pc' = "begin"
              /\ phase' = FirstPhase
  /\ UNCHANGED <<isCloverEnabled, tokenRow, merchantRow, remote, offset,
                 items, idx, tx, pending, committed, processed, errors,
                 phaseStatus, report, reqLog, handled, procLog, violated, upserted, categoryIdSent,
                 txBegun, tokenReads>>

\* syncCategories / syncProducts / syncInventory: db.connect(), BEGIN, and
\* the entry of fetchPaged
PhaseBegin ==
  /\ pc = "begin"
  /\ dbConnects' = dbConnects + 1
  /\ tx' = "open"
  /\ pending' = {}
  /\ txBegun' = [txBegun EXCEPT ![phase] = @ + 1]
  /\ phaseStatus' = [phaseStatus EXCEPT ![phase] = "running"]
  /\ offset' = 0
  /\ pc' = "fetch"
  /\ UNCHANGED <<isCloverEnabled, tokenRow, merchantRow, remote, phase, items,
                 idx, committed, processed, errors, err, report, reqLog,
                 handled, procLog, violated, upserted, categoryIdSent, tokenReads>>

\* the bearer credentials of a remote request: the access_token column
\* of the merchant's clover_tokens row, and the CLOVER_ACCESS_TOKEN of the
\* process environment
MerchantToken == "clover_tokens.access_token"
EnvToken == "process.env.CLOVER_ACCESS_TOKEN"

\* const http = clover(): fetchPaged takes three parameters and builds its
\* client from the process environment; the client its caller made with
\* the merchant's token and passes as a fourth argument is not used
FetchAuth(passed) == EnvToken

\* fetchPaged: one page request, the status check and the empty-page break
FetchPage ==
  /\ pc = "fetch"
  /\ \E status \in FetchStatuses :
       LET len == PageLen(remote[phase], offset, PageLimit)
           seen == Len(procLog[phase])
       IN IF ~ValidateStatus(status) \/ status >= 400
            THEN /\ reqLog' = [reqLog EXCEPT ![phase] =
                       Append(@, [offset |-> offset, seen |-> seen,
                                  status |-> status, len |-> -1,
                                  auth |-> FetchAuth(MerchantToken)])]
                 /\ err' = Error("fetch", status, 0)
                 /\ pc' = "catch"
                 /\ UNCHANGED <<items, idx, handled>>
            ELSE /\ reqLog' = [reqLog EXCEPT ![phase] =
                       Append(@, [offset |-> offset, seen |-> seen,
                                  status |-> status, len |-> len,
                                  auth |-> FetchAuth(MerchantToken)])]
                 /\ items' = len
                 /\ err' = err
                 /\ IF PageIsEmpty(len)
                      THEN /\ pc' = "commit"
                           /\ UNCHANGED <<idx, handled>>
                      ELSE /\ pc' = "handle"
                           /\ idx' = 1
                           /\ handled' = [handled EXCEPT ![phase] =
                                 Append(@, [offset |-> offset, len |-> len])]
  /\ UNCHANGED <<isCloverEnabled, tokenRow, merchantRow, remote, phase, offset,
                 tx, pending, committed, processed, errors, phaseStatus, report,
                 procLog, violated, upserted, categoryIdSent, txBegun, dbConnects, tokenReads>>

\* item.categories.elements[0].id of the remote item: items with an odd
\* id name the category of the same id, items with an even id have no
\* categories element
CloverCategoryOf(id) == IF id % 2 = 1 THEN id ELSE Null

\* let categoryId = null; SELECT id FROM categories WHERE merchant_id = $1
\* AND clover_id = $2; categoryId = rows[0].id when a row came back
CategoryId_Unchecked(id, categories) ==
  IF CloverCategoryOf(id) # Null THEN LocalId(CloverCategoryOf(id)) ELSE Null
CategoryId(id, categories) ==
  IF CloverCategoryOf(id) # Null /\ CloverCategoryOf(id) \in categories
    THEN LocalId(CloverCategoryOf(id))
    ELSE Null

\* does the record need its product row (syncInventory), and is it there
ProductFound(ph, id) == ph # "inventory" \/ id \in committed["products"]

\* the handler's loop body for one record: the try block and its catch
HandleRecord ==
  /\ pc = "handle"
  /\ idx <= items
  /\ LET id == offset + idx
     IN /\ procLog' = [procLog EXCEPT ![phase] = Append(@, id)]
        /\ idx' = idx + 1
        /\ IF tx = "aborted"
             THEN \* every statement of an aborted block fails
                  /\ errors' = [errors EXCEPT ![phase] =
                        Append(@, Error("aborted", 0, id))]
                  /\ UNCHANGED <<tx, pending, processed, violated, upserted, categoryIdSent>>
             ELSE IF ~ProductFound(phase, id)
               THEN \* continue
                    UNCHANGED <<tx, pending, processed, errors, violated, upserted, categoryIdSent>>
               ELSE \E violates \in BOOLEAN :
                      IF violates
                        THEN /\ tx' = "aborted"
                             /\ errors' = [errors EXCEPT ![phase] =
                                   Append(@, Error("constraint", 0, id))]
                             /\ violated' = [violated EXCEPT ![phase] = @ \cup {id}]
                             /\ UNCHANGED <<pending, processed, upserted, categoryIdSent>>
                        ELSE /\ pending' = pending \cup {id}
                             /\ processed' = [processed EXCEPT ![phase] = @ + 1]
                             /\ upserted' = [upserted EXCEPT ![phase] = @ \cup {id}]
                             /\ categoryIdSent' =
                                  IF phase = "products"
                                    THEN [categoryIdSent EXCEPT ![id] =
                                            CategoryId(id, committed["categories"])]
                                    ELSE categoryIdSent
                             /\ UNCHANGED <<tx, errors, violated>>
  /\ UNCHANGED <<isCloverEnabled, tokenRow, merchantRow, remote, pc, phase,
                 offset, items, committed, phaseStatus, err, report, reqLog,
                 handled, txBegun, dbConnects, tokenReads>>

\* the handler returns; fetchPaged's short-page break and offset advance
HandlerReturn ==
  /\ pc = "handle"
  /\ idx > items
  /\ IF ShortPage(items, PageLimit)
       THEN /\ pc' = "commit"
            /\ offset' = offset
       ELSE /\ pc' = "fetch"
            /\ offset' = offset + items
  /\ UNCHANGED <<isCloverEnabled, tokenRow, merchantRow, remote, phase, items,
                 idx, tx, pending, committed, processed, errors, phaseStatus,
                 err, report, reqLog, handled, procLog, violated, upserted, categoryIdSent, txBegun,
                 dbConnects, tokenReads>>

\* COMMIT, the phase's result, release, and the start of the next phase
PhaseCommit ==
  /\ pc = "commit"
  /\ committed' = [committed EXCEPT ![phase] =
        IF tx = "open" THEN @ \cup pending ELSE @]
  /\ tx' = "none"
  /\ pending' = {}
  /\ phaseStatus' = [phaseStatus EXCEPT ![phase] = "ok"]
  /\ IF NextPhase(phase) = "none"
       THEN /\ pc' = "finish"
            /\ phase' = phase
       ELSE /\ pc' = "begin"
            /\ phase' = NextPhase(phase)
  /\ UNCHANGED <<isCloverEnabled, tokenRow, merchantRow, remote, offset, items,
                 idx, processed, errors, err, report, reqLog, handled, procLog,
                 violated, upserted, categoryIdSent, txBegun, dbConnects, tokenReads>>

\* the phase's catch: ROLLBACK, rethrow, release
PhaseRollback ==
  /\ pc = "catch"
  /\ tx' = "none"
  /\ pending' = {}
  /\ phaseStatus' = [phaseStatus EXCEPT ![phase] = "failed"]
  /\ pc' = "failed"
  /\ UNCHANGED <<isCloverEnabled, tokenRow, merchantRow, remote, phase, offset,
                 items, idx, committed, processed, errors, err, report, reqLog,
                 handled, procLog, violated, upserted, categoryIdSent, txBegun, dbConnects, tokenReads>>

\* performFullSync's catch: the structured error report
ReturnError ==
  /\ pc = "failed"
  /\ report' = ErrorReport(err)
  /\ pc' = "done"
  /\ UNCHANGED <<isCloverEnabled, tokenRow, merchantRow, remote, phase, offset,
                 items, idx, tx, pending, committed, processed, errors,
                 phaseStatus, err, reqLog, handled, procLog, violated, upserted, categoryIdSent, txBegun,
                 dbConnects, tokenReads>>

\* performFullSync's normal return
ReturnSuccess ==
  /\ pc = "finish"
  /\ report' = SuccessReport
  /\ pc' = "done"
  /\ UNCHANGED <<isCloverEnabled, tokenRow, merchantRow, remote, phase, offset,
                 items, idx, tx, pending, committed, processed, errors,
                 phaseStatus, err, reqLog, handled, procLog, violated, upserted, categoryIdSent, txBegun,
                 dbConnects, tokenReads>>

SyncNext ==
  \/ ReturnDisabled
  \/ GetMerchantCloverToken
  \/ GetCloverMerchantId
  \/ PhaseBegin
  \/ FetchPage
  \/ HandleRecord
  \/ HandlerReturn
  \/ PhaseCommit
  \/ PhaseRollback
  \/ ReturnError
  \/ ReturnSuccess

Next ==
  SyncNext
    /\ UNCHANGED <<retryVars, routeVars, orderVars, stockVars, upsertVars, sideVars>>

Spec == Init /\ [][Next]_vars

\* -------------------------------------------------- POST /api/sync/full
syncLocals == <<isCloverEnabled, tokenRow, merchantRow, remote, phase, offset,
                items, idx, tx, pending, committed, processed, errors,
                phaseStatus, err, report, reqLog, handled, procLog, violated,
                upserted, categoryIdSent, txBegun, dbConnects, tokenReads>>

RECURSIVE SumOver(_, _)
SumOver(f, S) ==
  IF S = {} THEN 0
  ELSE LET x == CHOOSE y \in S : TRUE IN f[x] + SumOver(f, S \ {x})

\* res.json(result) / res.status(500).json(result)
ResultStatus(result) == IF result.success THEN 200 ELSE 500

\* the catch blocks of the two handlers: status by error message
ErrorStatus(message) ==
  CASE message = "No Clover token found for merchant" -> 400
    [] message = "Clover access token has expired" -> 401
    [] message = "Merchant not found" -> 404
    [] message = "No Clover merchant ID associated with this merchant" -> 400
    [] OTHER -> 500

\* a request POST /api/sync/full arrives
FullRouteInit ==
  /\ SyncConfig
  /\ remote \in [Phases -> 0..MaxRecords]
  /\ pc = "idle"
  /\ SyncFresh
  /\ RetryIdle
  /\ OrderIdle
  /\ StockIdle
  /\ UpsertIdle
  /\ SideIdle
  /\ vercelBaseUrl \in VercelBaseUrls
  /\ route = "recv"
  /\ resp = NoResp
  /\ outbound = 0

\* if (!syncService.isEnabled()) return res.json({ ...stub })
FullDisabled ==
  /\ route = "recv"
  /\ ~isEnabled
  /\ resp' = StubResp
  /\ route' = "responded"
  /\ UNCHANGED <<pc, syncLocals, vercelBaseUrl, outbound>>

\* const result = await syncService.performFullSync(merchantId)
FullCall ==
  /\ route = "recv"
  /\ isEnabled
  /\ route' = "sync"
  /\ pc' = "start"
  /\ UNCHANGED <<syncLocals, vercelBaseUrl, resp, outbound>>

\* performFullSync has returned: result.success ? res.json(result)
\* : res.status(500).json(result).  performFullSync catches every error it
\* meets, so the catch block of the handler is never entered from here.
FullRespond ==
  /\ route = "sync"
  /\ pc = "done"
  /\ resp' = [NoResp EXCEPT !.status = ResultStatus(report),
                            !.kind = "sync",
                            !.success = report.success,
                            !.enabled = report.enabled,
                            !.processed = SumOver(report.processed, Phases),
                            !.error = report.error.kind]
  /\ route' = "responded"
  /\ UNCHANGED <<pc, syncLocals, vercelBaseUrl, outbound>>

\* the steps of performFullSync once the handler has called it
FullSyncStep ==
  \/ GetMerchantCloverToken
  \/ GetCloverMerchantId
  \/ PhaseBegin
  \/ FetchPage
  \/ HandleRecord
  \/ HandlerReturn
  \/ PhaseCommit
  \/ PhaseRollback
  \/ ReturnError
  \/ ReturnSuccess

FullRouteNext ==
  /\ \/ FullDisabled
     \/ FullCall
     \/ FullRespond
     \/ (FullSyncStep /\ UNCHANGED routeVars)
  /\ UNCHANGED <<retryVars, orderVars, stockVars, upsertVars, sideVars>>

FullRouteSpec == FullRouteInit /\ [][FullRouteNext]_vars

\* ------------------------------------------------ POST /api/sync/orders
\* String.prototype.trim: the string without its leading and trailing
\* white space
RECURSIVE TrimStart(_)
TrimStart(str) ==
  IF str # <<>> /\ Head(str) = " " THEN TrimStart(Tail(str)) ELSE str

RECURSIVE TrimEnd(_)
TrimEnd(str) ==
  IF str # <<>> /\ str[Len(str)] = " "
    THEN TrimEnd(SubSeq(str, 1, Len(str) - 1))
    ELSE str

Trim(str) == TrimEnd(TrimStart(str))

\* a JavaScript string or undefined as a condition: undefined and the
\* empty string are falsy
Truthy(v) == v.set /\ v.chars # <<>>

\* if (vercelBaseUrl && vercelBaseUrl.trim())
ProxyMode_NoTrim(url) == Truthy(url)
ProxyMode(url) == Truthy(url) /\ Truthy(SetTo(Trim(url.chars)))

\* the error getMerchantCloverToken or the merchants lookup of the handler
\* throws, "none" when the configuration is complete
ConfigError(token, merchant) ==
  IF TokenMissing(token) THEN "No Clover token found for merchant"
  ELSE IF TokenExpired(token) THEN "Clover access token has expired"
  ELSE IF merchant = "missing" THEN "Merchant not found"
  ELSE IF merchant = "nocloverid"
    THEN "No Clover merchant ID associated with this merchant"
  ELSE "none"

RECURSIVE SumSeq(_)
SumSeq(q) == IF q = <<>> THEN 0 ELSE Head(q) + SumSeq(Tail(q))

\* li.price of each line item
Prices(elements) == [i \in 1..Len(elements) |-> elements[i].price]

\* let productId = null; SELECT id FROM products WHERE merchant_id = $1
\* AND clover_item_id = $2 LIMIT 1; productId = rows[0].id when a row
\* came back
ProductId_Unchecked(item) == IF item # Null THEN LocalId(item) ELSE Null
ProductId(item) ==
  IF item # Null /\ item \in ProductItemIds THEN LocalId(item) ELSE Null

\* the transaction_items row inserted for a line item
ItemRow(li) ==
  [unit_price_cents |-> li.price, clover_item_id |-> li.item,
   product_id |-> ProductId(li.item)]

ItemRows(elements) == [i \in 1..Len(elements) |-> ItemRow(elements[i])]

OrderRecord(id, shape) ==
  [id |-> id, state |-> OrderShapes[shape].state,
   paymentState |-> OrderShapes[shape].paymentState,
   total |-> OrderShapes[shape].total,
   lineItems |-> OrderShapes[shape].lineItems]

\* the remote collection: the orders f keeps, in id order
RECURSIVE RemoteSeq(_, _)
RemoteSeq(f, k) ==
  IF k > MaxOrders THEN <<>>
  ELSE IF f[k] = 0 THEN RemoteSeq(f, k + 1)
  ELSE <<OrderRecord(k, f[k])>> \o RemoteSeq(f, k + 1)

RemoteCollections ==
  {RemoteSeq(f, 1) : f \in [OrderIds -> 0..Len(OrderShapes)]}

\* the page the remote returns for the offset
OrdersPage(off) ==
  SubSeq(cloverOrders, off + 1,
         off + PageLen(Len(cloverOrders), off, PageLimit))

\* const taxCents = 0; // Not parsing tax for now
TaxCents == 0
\* const discountCents = 0;
DiscountCents == 0

\* order.paymentState === 'PAID' ? new Date() : null
CompletedAt(order, now) == IF order.paymentState = "PAID" THEN now ELSE Null

\* the values of the INSERT
OrderValues(order, now) ==
  [present |-> TRUE, clover_order_id |-> order.id, status |-> order.state,
   subtotal_cents |-> SumSeq(Prices(order.lineItems)),
   tax_cents |-> TaxCents,
   discount_cents |-> DiscountCents, total_cents |-> order.total,
   completed_at |-> CompletedAt(order, now)]

\* COALESCE(a, b)
Coalesce_First(a, b) == a
Coalesce(a, b) == IF a # Null THEN a ELSE b

\* INSERT ... ON CONFLICT (merchant_id, clover_order_id) DO UPDATE SET ...
Upsert(old, new) ==
  IF old.present
    THEN [new EXCEPT !.completed_at = Coalesce(new.completed_at, old.completed_at)]
    ELSE new

\* RETURNING id, (xmax = 0) AS inserted: true when the statement
\* created the row, false when it updated the row the conflict named
WasInserted_Always(old) == TRUE
WasInserted(old) == ~old.present

\* DELETE FROM transaction_items WHERE transaction_id = $1
DeleteItems_None(rows) == rows
DeleteItems(rows) == <<>>

\* ROLLBACK: the tables as they were at BEGIN
Rollback_KeepPartial(before, partial) == partial
Rollback(before, partial) == before

\* cloverOrderIds.add(cloverOrderId): the first thing after BEGIN, before
\* any statement that can fail
SeenAfter_Committed(seen, id, failAt) ==
  IF failAt = "none" THEN seen \cup {id} ELSE seen
SeenAfter(seen, id, failAt) == seen \cup {id}

\* the statement of the order's transaction that fails, if one does
FailPoints == {"none", "upsert", "delete", "item"}

\* SELECT ... WHERE clover_order_id IS NOT NULL AND clover_order_id NOT IN
\* (seen) AND status != 'delete'   (the query of the prune branch)
UnmatchedQuery_IgnoreSeen(rows, seen) ==
  {k \in RowKeys : /\ rows[k].present
                   /\ rows[k].clover_order_id # Null
                   /\ rows[k].status # "delete"}
UnmatchedQuery(rows, seen) ==
  {k \in RowKeys : /\ rows[k].present
                   /\ rows[k].clover_order_id # Null
                   /\ rows[k].clover_order_id \notin seen
                   /\ rows[k].status # "delete"}

\* the query of the branch taken when prune is false
UnmatchedPreview_AnyStatus(rows, seen) ==
  {k \in RowKeys : /\ rows[k].present
                   /\ rows[k].clover_order_id # Null
                   /\ rows[k].clover_order_id \notin seen}
UnmatchedPreview(rows, seen) ==
  {k \in RowKeys : /\ rows[k].present
                   /\ rows[k].clover_order_id # Null
                   /\ rows[k].clover_order_id \notin seen
                   /\ rows[k].status # "delete"}

\* UPDATE transactions SET status = 'delete' WHERE id IN (keys)
MarkDeleted_Hard(rows, keys) ==
  [k \in RowKeys |-> IF k \in keys THEN NoRow ELSE rows[k]]
MarkDeleted(rows, keys) ==
  [k \in RowKeys |->
     IF k \in keys THEN [rows[k] EXCEPT !.status = "delete"] ELSE rows[k]]

\* the reconciliation step of syncOrders: the tables it leaves and the
\* counts it reports
PruneOutcome(rows, seen, pr) ==
  IF pr /\ seen # {}
    THEN LET u == UnmatchedQuery(rows, seen)
         IN [rows |-> MarkDeleted(rows, u), marked |-> Cardinality(u),
             unmatched |-> Cardinality(u)]
    ELSE IF ~pr /\ seen # {}
      THEN [rows |-> rows, marked |-> 0,
            unmatched |-> Cardinality(UnmatchedPreview(rows, seen))]
      ELSE [rows |-> rows, marked |-> 0, unmatched |-> 0]

\* the server is up: its configuration, and the order tables
OrderInit ==
  /\ SyncConfig
  /\ remote = [ph \in Phases |-> 0]
  /\ pc = "idle"
  /\ SyncFresh
  /\ RetryIdle
  /\ StockIdle
  /\ UpsertIdle
  /\ SideIdle
  /\ vercelBaseUrl \in VercelBaseUrls
  /\ route = "idle"
  /\ resp = NoResp
  /\ outbound = 0
  /\ opc = "recv"
  /\ OrderFresh

\* proxy mode: axios.post to the upstream deployment, and its response
\* forwarded (502 when there is none)
OrdersProxy ==
  /\ opc = "recv"
  /\ run < MaxRuns
  /\ ProxyMode(vercelBaseUrl)
  /\ run' = run + 1
  /\ outbound' = outbound + 1
  /\ \E status \in UpstreamStatuses : \E en \in BOOLEAN :
       resp' = IF status = 0
                 THEN [NoResp EXCEPT !.status = 502, !.kind = "gateway",
                                     !.error = "Bad Gateway"]
                 ELSE [NoResp EXCEPT !.status = status, !.kind = "upstream",
                                     !.success = (status < 400),
                                     !.enabled = en]
  /\ UNCHANGED <<vercelBaseUrl, route, opc, prune, cloverOrders, ordOffset,
                 ordIdx, cloverOrderIds, ordCounts, ordErrors, transactions,
                 transactionItems, ordReqs, lastTx, paidSeen, repeatRun>>

\* local mode, feature toggle off: the stubbed response
OrdersDisabled ==
  /\ opc = "recv"
  /\ run < MaxRuns
  /\ ~ProxyMode(vercelBaseUrl)
  /\ ~isEnabled
  /\ run' = run + 1
  /\ resp' = StubResp
  /\ UNCHANGED <<vercelBaseUrl, route, outbound, opc, prune, cloverOrders,
                 ordOffset, ordIdx, cloverOrderIds, ordCounts, ordErrors,
                 transactions, transactionItems, ordReqs, lastTx, paidSeen, repeatRun>>

\* the request repeats the one before it: that one ran syncOrders to its
\* end without an error entry, and this one has the same prune option
\* and finds the same remote orders
SameSyncAgain(orders, pr) ==
  /\ resp.kind = "orders"
  /\ ordErrors = <<>>
  /\ orders = cloverOrders
  /\ pr = prune

\* local mode, feature toggle on: the token and merchant lookups, then
\* either the catch block's response or the call of syncOrders with the
\* request's prune option
OrdersLocal ==
  /\ opc = "recv"
  /\ run < MaxRuns
  /\ ~ProxyMode(vercelBaseUrl)
  /\ isEnabled
  /\ run' = run + 1
  /\ LET e == ConfigError(tokenRow, merchantRow)
     IN IF e # "none"
          THEN /\ resp' = [NoResp EXCEPT !.status = ErrorStatus(e),
                                         !.kind = "error",
                                         !.enabled = isEnabled,
                                         !.error = e]
               /\ UNCHANGED <<opc, prune, cloverOrders, ordOffset, ordIdx,
                              cloverOrderIds, ordCounts, ordErrors, ordReqs,
                              lastTx, repeatRun>>
          ELSE /\ resp' = NoResp
               /\ opc' = "fetch"
               /\ prune' \in BOOLEAN
               /\ cloverOrders' \in RemoteCollections
               /\ ordOffset' = 0
               /\ ordIdx' = 0
               /\ cloverOrderIds' = {}
               /\ ordCounts' = ZeroOrdCounts
               /\ ordErrors' = <<>>
               /\ ordReqs' = 0
               /\ lastTx' = NoTx
               /\ repeatRun' = SameSyncAgain(cloverOrders', prune')
  /\ UNCHANGED <<vercelBaseUrl, route, outbound, transactions,
                 transactionItems, paidSeen>>

\* fetchPaged of syncOrders: one page request; a failed request leaves
\* syncOrders through its catch and the handler answers 500
OrdersFetchPage ==
  /\ opc = "fetch"
  /\ ordReqs' = ordReqs + 1
  /\ \E status \in FetchStatuses :
       IF ~ValidateStatus(status) \/ status >= 400
         THEN /\ resp' = [NoResp EXCEPT !.status = ErrorStatus("fetch"),
                                        !.kind = "error",
                                        !.enabled = isEnabled,
                                        !.error = "fetch"]
              /\ opc' = "recv"
              /\ ordIdx' = ordIdx
         ELSE /\ resp' = resp
              /\ IF PageIsEmpty(Len(OrdersPage(ordOffset)))
                   THEN opc' = "reconcile" /\ ordIdx' = ordIdx
                   ELSE opc' = "handle" /\ ordIdx' = 1
  /\ UNCHANGED <<vercelBaseUrl, route, outbound, run, prune, cloverOrders,
                 ordOffset, cloverOrderIds, ordCounts, ordErrors, transactions,
                 transactionItems, lastTx, paidSeen, repeatRun>>

\* the handler's loop body for one order: BEGIN, the upsert, the delete of
\* the line items, their inserts and COMMIT, or the catch with ROLLBACK
HandleOrder ==
  /\ opc = "handle"
  /\ ordIdx <= Len(OrdersPage(ordOffset))
  /\ LET order == OrdersPage(ordOffset)[ordIdx]
         id == order.id
         oldRow == transactions[id]
         before == [rows |-> transactions, items |-> transactionItems]
         afterUpsert ==
           [rows |-> [transactions EXCEPT
                        ![id] = Upsert(oldRow, OrderValues(order, run))],
            items |-> transactionItems]
         afterDelete ==
           [rows |-> afterUpsert.rows,
            items |-> [transactionItems EXCEPT ![id] = DeleteItems(@)]]
         afterInsert(n) ==
           [rows |-> afterDelete.rows,
            items |-> [afterDelete.items EXCEPT
                         ![id] = @ \o SubSeq(ItemRows(order.lineItems), 1, n)]]
     IN \E failAt \in FailPoints : \E n \in 0..Len(order.lineItems) :
          /\ failAt = "item" => n < Len(order.lineItems)
          /\ failAt # "item" => n = Len(order.lineItems)
          /\ cloverOrderIds' = SeenAfter(cloverOrderIds, id, failAt)
          /\ ordCounts' =
               [processed |-> ordCounts.processed + 1,
                inserted |-> ordCounts.inserted +
                  (IF failAt # "upsert" /\ WasInserted(oldRow)
                     THEN 1 ELSE 0),
                updated |-> ordCounts.updated +
                  (IF failAt # "upsert" /\ ~WasInserted(oldRow)
                     THEN 1 ELSE 0)]
          /\ LET partial == CASE failAt = "upsert" -> before
                              [] failAt = "delete" -> afterUpsert
                              [] OTHER -> afterInsert(n)
                 final == IF failAt = "none"
                            THEN afterInsert(n)
                            ELSE Rollback(before, partial)
             IN /\ transactions' = final.rows
                /\ transactionItems' = final.items
          /\ ordErrors' = IF failAt = "none" THEN ordErrors
                                             ELSE Append(ordErrors, id)
          /\ paidSeen' = IF failAt = "none" /\ order.paymentState = "PAID"
                           THEN paidSeen \cup {id} ELSE paidSeen
          /\ lastTx' = [id |-> id, failAt |-> failAt, order |-> order,
                        oldRow |-> oldRow, oldItems |-> transactionItems[id]]
  /\ ordIdx' = ordIdx + 1
  /\ UNCHANGED <<vercelBaseUrl, route, resp, outbound, run, opc, prune,
                 cloverOrders, ordOffset, ordReqs, repeatRun>>

\* the handler returns; fetchPaged's short-page break and offset advance
OrdersHandlerReturn ==
  /\ opc = "handle"
  /\ ordIdx > Len(OrdersPage(ordOffset))
  /\ IF ShortPage(Len(OrdersPage(ordOffset)), PageLimit)
       THEN /\ opc' = "reconcile"
            /\ ordOffset' = ordOffset
       ELSE /\ opc' = "fetch"
            /\ ordOffset' = ordOffset + Len(OrdersPage(ordOffset))
  /\ UNCHANGED <<vercelBaseUrl, route, resp, outbound, run, prune,
                 cloverOrders, ordIdx, cloverOrderIds, ordCounts, ordErrors,
                 transactions, transactionItems, ordReqs, lastTx, paidSeen, repeatRun>>

\* the reconciliation step, the report of syncOrders and res.json(result)
Reconcile ==
  /\ opc = "reconcile"
  /\ LET out == PruneOutcome(transactions, cloverOrderIds, prune)
     IN /\ transactions' = out.rows
        /\ resp' = [NoResp EXCEPT !.status = 200,
                                  !.kind = "orders",
                                  !.success = TRUE,
                                  !.enabled = TRUE,
                                  !.processed = ordCounts.processed,
                                  !.inserted = ordCounts.inserted,
                                  !.updated = ordCounts.updated,
                                  !.marked_for_delete = out.marked,
                                  !.unmatched = out.unmatched]
  /\ opc' = "recv"
  /\ UNCHANGED <<vercelBaseUrl, route, outbound, run, prune, cloverOrders,
                 ordOffset, ordIdx, cloverOrderIds, ordCounts, ordErrors,
                 transactionItems, ordReqs, lastTx, paidSeen, repeatRun>>

OrderNext ==
  /\ \/ OrdersProxy
     \/ OrdersDisabled
     \/ OrdersLocal
     \/ OrdersFetchPage
     \/ HandleOrder
     \/ OrdersHandlerReturn
     \/ Reconcile
  /\ UNCHANGED <<syncVars, retryVars, stockVars, upsertVars, sideVars>>

OrderSpec == OrderInit /\ [][OrderNext]_vars

\* ------------------------------------------------------------ properties
Rank(ph) == CASE ph = "categories" -> 1 [] ph = "products" -> 2 [] OTHER -> 3

\* fetchPaged of the phase has returned normally
FetchReturned(ph) == phaseStatus[ph] = "ok" \/ (phase = ph /\ pc = "commit")

LastLen(ph) == reqLog[ph][Len(reqLog[ph])].len

\* C1: over a collection of exactly N*L records fetchPaged issues N+1 page
\* requests and the last returns zero records; over N*L-1 records (N >= 1)
\* it issues N requests and the last returns a short page.
C1_PaginationExhaustion ==
  \A ph \in Phases :
    FetchReturned(ph) =>
      /\ \A N \in 0..MaxRecords :
           remote[ph] = N * PageLimit =>
             Len(reqLog[ph]) = N + 1 /\ LastLen(ph) = 0
      /\ \A N \in 1..(MaxRecords + 1) :
           remote[ph] = N * PageLimit - 1 =>
             /\ Len(reqLog[ph]) = N
             /\ LastLen(ph) >= 0
             /\ LastLen(ph) < PageLimit

C1_Witness ==
  /\ \E ph \in Phases : \E N \in 1..MaxRecords :
       FetchReturned(ph) /\ remote[ph] = N * PageLimit /\ Len(reqLog[ph]) = N + 1
  /\ \E ph \in Phases : \E N \in 1..MaxRecords :
       FetchReturned(ph) /\ remote[ph] = N * PageLimit - 1 /\ Len(reqLog[ph]) = N

\* C2: the handler is invoked once per non-empty page and never with an
\* empty page, in increasing offset order; a page is requested only after
\* the handler has worked through every record of the pages before it; no
\* page is requested after an empty or short page; records are processed
\* in array order.
C2_HandlerProtocol ==
  \A ph \in Phases :
    /\ \A i \in 1..Len(handled[ph]) :
         /\ handled[ph][i].len > 0
         /\ handled[ph][i].offset = (i - 1) * PageLimit
    /\ Len(handled[ph]) =
         Cardinality({i \in 1..Len(reqLog[ph]) : reqLog[ph][i].len > 0})
    /\ \A i \in 1..Len(reqLog[ph]) :
         /\ reqLog[ph][i].offset = (i - 1) * PageLimit
         /\ reqLog[ph][i].seen = reqLog[ph][i].offset
         /\ i < Len(reqLog[ph]) => reqLog[ph][i].len = PageLimit
    /\ \A i \in 1..Len(procLog[ph]) : procLog[ph][i] = i
    /\ FetchReturned(ph) => Len(procLog[ph]) = remote[ph]

C2_Witness ==
  \E ph \in Phases :
    /\ phaseStatus[ph] = "ok"
    /\ Len(handled[ph]) >= 2
    /\ Len(procLog[ph]) = remote[ph]

\* C5: no product page is requested or handled, and no product transaction
\* begun, before the category phase has exhausted its pages and finished;
\* likewise inventory after products.
PagesExhausted(ph) ==
  /\ reqLog[ph] # <<>>
  /\ LastLen(ph) >= 0
  /\ LastLen(ph) < PageLimit

Started(ph) ==
  reqLog[ph] # <<>> \/ handled[ph] # <<>> \/ txBegun[ph] > 0
    \/ phaseStatus[ph] # "idle"

C5_PhaseOrder ==
  /\ Started("products") =>
       phaseStatus["categories"] = "ok" /\ PagesExhausted("categories")
  /\ Started("inventory") =>
       phaseStatus["products"] = "ok" /\ PagesExhausted("products")

C5_Witness ==
  /\ procLog["categories"] # <<>>
  /\ procLog["products"] # <<>>
  /\ procLog["inventory"] # <<>>

\* C9: when a phase fails fatally no later phase is started, and the report
\* performFullSync returns has success = false and carries the error.
C9_FatalAborts ==
  \A ph \in Phases :
    phaseStatus[ph] = "failed" =>
      /\ \A q \in Phases : Rank(q) > Rank(ph) => ~Started(q)
      /\ pc = "done" =>
           /\ report.success = FALSE
           /\ report.error.kind = "fetch"
           /\ report.error.status = reqLog[ph][Len(reqLog[ph])].status
           /\ report.error.status >= 400

C9_Witness ==
  /\ pc = "done"
  /\ phaseStatus["categories"] = "ok"
  /\ phaseStatus["products"] = "failed"
  /\ report.success = FALSE

\* C10: with the feature toggle off performFullSync returns success = true,
\* enabled = false and zero processed counts, and no database connection
\* is opened, no token read and no remote request made.
C10_DisabledShortCircuit ==
  ~isCloverEnabled =>
    /\ dbConnects = 0
    /\ tokenReads = 0
    /\ \A ph \in Phases : reqLog[ph] = <<>> /\ txBegun[ph] = 0
    /\ pc = "done" =>
         /\ report.success = TRUE
         /\ report.enabled = FALSE
         /\ \A ph \in Phases : report.processed[ph] = 0

C10_Witness ==
  /\ ~isCloverEnabled
  /\ pc = "done"
  /\ report.enabled = FALSE

\* C12: a missing token row, an expired token, a missing merchant row and a
\* merchant without a Clover merchant id are detected before any remote
\* call: such a run ends with the configuration error, and a run that ends
\* with a configuration error never invoked fetchPaged and began no sync
\* transaction.
C12_ConfigBeforeRemote ==
  /\ (isCloverEnabled /\ (tokenRow # "valid" \/ merchantRow # "ok")) =>
       /\ \A ph \in Phases : reqLog[ph] = <<>> /\ txBegun[ph] = 0
       /\ pc = "done" => report.error.kind \in ConfigErrors
  /\ (pc = "done" /\ report.error.kind \in ConfigErrors) =>
       /\ report.success = FALSE
       /\ \A ph \in Phases :
            reqLog[ph] = <<>> /\ handled[ph] = <<>> /\ txBegun[ph] = 0

C12_Witness ==
  /\ pc = "done"
  /\ tokenRow = "valid"
  /\ merchantRow = "nocloverid"
  /\ report.error.kind = "No Clover merchant ID associated with this merchant"
  /\ dbConnects = 2

\* records of the page delivered by the i-th handler invocation of a phase
PageRecords(ph, i) ==
  (handled[ph][i].offset + 1)..(handled[ph][i].offset + handled[ph][i].len)

PhaseOver(ph) == phaseStatus[ph] \in {"ok", "failed"}

\* C6: every page is processed in a transaction of its own, and a failure
\* on one page undoes that page only: when the phase is over, the upserts
\* of every page that had no failing record are committed.
C6_PageScopedTransactions ==
  \A ph \in Phases :
    /\ handled[ph] # <<>> => txBegun[ph] = Len(handled[ph])
    /\ PhaseOver(ph) =>
         \A i \in 1..Len(handled[ph]) :
           (\A r \in PageRecords(ph, i) :
               \A k \in 1..Len(errors[ph]) : errors[ph][k].rec # r)
             => (PageRecords(ph, i) \cap upserted[ph]) \subseteq committed[ph]

\* C7: when exactly one record of a phase violates a constraint the run
\* completes, every other upserted record is committed, processed counts
\* the successful records, and the error list has exactly one entry.
C7_PartialFailureIsolation ==
  \A ph \in Phases :
    (/\ pc = "done"
     /\ \A q \in Phases : phaseStatus[q] = "ok"
     /\ Cardinality(violated[ph]) = 1) =>
      /\ report.success = TRUE
      /\ upserted[ph] \subseteq committed[ph]
      /\ processed[ph] = Cardinality(upserted[ph])
      /\ Len(errors[ph]) = 1
      /\ Len(procLog[ph]) = remote[ph]

\* C8: when a page request of a phase fails after earlier pages were
\* handled, the upserts made for the earlier pages are committed once the
\* run has ended.
C8_DurablePerPage ==
  \A ph \in Phases :
    (pc = "done" /\ phaseStatus[ph] = "failed" /\ Len(reqLog[ph]) > 1) =>
      upserted[ph] \subseteq committed[ph]

\* ------------------------------------------------------ requestWithRetry
\* if (res.status === 408 || res.status === 429 || res.status >= 500)
Transient(s) == s = 408 \/ s = 429 \/ s >= 500

\* if (attempt >= tries) throw
Exhausted_OffByOne(a, tries) == a > tries
Exhausted(a, tries) == a >= tries

\* baseMs * Math.pow(2, attempt - 1)
BackoffMs(base, a) == base * Pow2(a - 1)

\* a call requestWithRetry(http, path, params, { tries, baseMs })
RetryInit ==
  /\ SyncInit
  /\ RouteIdle
  /\ OrderIdle
  /\ StockIdle
  /\ UpsertIdle
  /\ SideIdle
  /\ isCloverEnabled = FALSE
  /\ tokenRow = "none"
  /\ merchantRow = "missing"
  /\ remote = [ph \in Phases |-> 0]
  /\ rpc = "request"
  /\ rtries \in 1..DefaultTries
  /\ rbase = DefaultBaseMs
  /\ attempt = 0
  /\ rlog = <<>>
  /\ rdelays = <<>>

\* one pass of the loop: http.get and the checks on its response
HttpGet ==
  /\ rpc = "request"
  /\ Len(rlog) < MaxRequests
  /\ \E status \in RetryStatuses :
       /\ rlog' = Append(rlog, status)
       /\ IF ~ValidateStatus(status)
            THEN \* http.get rejects; nothing in the loop catches it
                 /\ rpc' = "thrown"
                 /\ UNCHANGED <<attempt, rdelays>>
            ELSE IF Transient(status)
              THEN /\ attempt' = attempt + 1
                   /\ IF Exhausted(attempt + 1, rtries)
                        THEN /\ rpc' = "thrown"
                             /\ rdelays' = rdelays
                        ELSE /\ rpc' = "delay"
                             /\ rdelays' = Append(rdelays, BackoffMs(rbase, attempt + 1))
              ELSE IF status >= 400
                THEN /\ rpc' = "thrown"
                     /\ UNCHANGED <<attempt, rdelays>>
                ELSE /\ rpc' = "returned"
                     /\ UNCHANGED <<attempt, rdelays>>
  /\ UNCHANGED <<rtries, rbase>>

\* await delay(...); continue
DelayElapsed ==
  /\ rpc = "delay"
  /\ rpc' = "request"
  /\ UNCHANGED <<rtries, rbase, attempt, rlog, rdelays>>

RetryNext ==
  (HttpGet \/ DelayElapsed)
    /\ UNCHANGED <<syncVars, routeVars, orderVars, stockVars, upsertVars, sideVars>>

RetrySpec == RetryInit /\ [][RetryNext]_vars

\* setTimeout and the HTTP client's timeout make every await of the loop
\* resolve
FairRetrySpec == RetrySpec /\ WF_vars(RetryNext)

LastStatus == rlog[Len(rlog)]

\* C3: a 408, 429 or 5xx response makes requestWithRetry issue the request
\* again while attempts remain, any other status >= 400 raises at once, and
\* a status < 400 returns the data.
C3_RetryOnTransient ==
  /\ rpc = "thrown" =>
       /\ LastStatus >= 400
       /\ (LastStatus = 408 \/ LastStatus = 429 \/ LastStatus >= 500)
            => Len(rlog) = rtries
  /\ rpc = "delay" =>
       (LastStatus = 408 \/ LastStatus = 429 \/ LastStatus >= 500)
  /\ rpc = "returned" => LastStatus < 400
  /\ \A i \in 1..(Len(rlog) - 1) :
       rlog[i] = 408 \/ rlog[i] = 429 \/ rlog[i] >= 500

\* C4: one call issues at most `tries` requests, sleeps base * 2^(k-1) ms
\* before the k-th retry, throws when the last attempt is still a transient
\* failure, and always terminates.
C4_RetryInvariant ==
  /\ Len(rlog) <= rtries
  /\ \A k \in 1..Len(rdelays) : rdelays[k] = rbase * (2 ^ (k - 1))
  /\ rpc = "delay" => Len(rdelays) = Len(rlog)
  /\ rpc = "request" => Len(rdelays) = Len(rlog)
  /\ (/\ rlog # <<>>
      /\ Len(rlog) = rtries
      /\ (LastStatus = 408 \/ LastStatus = 429 \/ LastStatus >= 500))
       => rpc = "thrown"

C4_BoundedRetry ==
  /\ []C4_RetryInvariant
  /\ <>(rpc \in {"returned", "thrown"})

C4_Witness ==
  /\ rpc = "thrown"
  /\ rtries = DefaultTries
  /\ Len(rlog) = DefaultTries
  /\ LastStatus = 429
  /\ rdelays = <<DefaultBaseMs, 2 * DefaultBaseMs, 4 * DefaultBaseMs>>

\* C13: with Clover enabled POST /api/sync/full answers 400 when the merchant
\* has no Clover token, 401 when the stored token is expired and 404 when
\* the merchant account is not found; 500 only for a failed sync operation.
C13_FullRouteStatusCodes ==
  (route = "responded" /\ isCloverEnabled) =>
    /\ tokenRow = "none" => resp.status = 400
    /\ tokenRow = "expired" => resp.status = 401
    /\ (tokenRow = "valid" /\ merchantRow = "missing") => resp.status = 404
    /\ resp.status = 500 => \E ph \in Phases : phaseStatus[ph] = "failed"

\* -------------------------------------------------- POST /api/sync/orders
\* C11: with ENABLE_CLOVER false every sync endpoint, in any configuration,
\* answers with the stubbed zero-count response (enabled = false) and makes
\* no outbound API call.
C11_DisabledEndpointsStubbed ==
  ~isCloverEnabled =>
    /\ outbound = 0
    /\ ordReqs = 0
    /\ \A ph \in Phases : reqLog[ph] = <<>>
    /\ resp.kind # "none" => resp = StubResp

\* a step of the handler that works on one order
OrderTxStep == opc = "handle" /\ ordIdx' = ordIdx + 1

\* C14: every remote order is upserted in a transaction of its own: when a
\* statement for order X fails (the upsert, the line-item delete or a
\* line-item insert) every change made for X is rolled back, one entry
\* naming X is appended to the error list, the orders committed before X
\* stay committed, and the sync goes on with the next order until every
\* order of the sweep has been worked on.
C14_PerOrderTransaction ==
  /\ []((opc = "recv" /\ resp.kind = "orders") =>
          ordCounts.processed = Len(cloverOrders))
  /\ [][OrderTxStep =>
          /\ lastTx'.failAt # "none" =>
               /\ transactions' = transactions
               /\ transactionItems' = transactionItems
               /\ ordErrors' = Append(ordErrors, lastTx'.id)
               /\ opc' = "handle"
          /\ lastTx'.failAt = "none" =>
               /\ ordErrors' = ordErrors
               /\ \A k \in RowKeys \ {lastTx'.id} :
                    /\ transactions'[k] = transactions[k]
                    /\ transactionItems'[k] = transactionItems[k]]_vars

C14_Witness ==
  /\ opc = "recv"
  /\ resp.kind = "orders"
  /\ resp.processed = 2
  /\ lastTx.id = 2
  /\ lastTx.failAt = "item"
  /\ ordErrors = <<2>>
  /\ ordCounts.inserted = 1
  /\ ordCounts.updated = 1
  /\ transactions[1].present
  /\ transactionItems[1] # <<>>
  /\ lastTx.order.state # GoneRow.status
  /\ Len(lastTx.order.lineItems) = 2
  /\ transactions[2] = GoneRow
  /\ transactionItems[2] = <<CheckoutItem>>

\* C15: line items are replaced, not merged: after an order's transaction
\* commits, the line-item rows of the order are exactly the line items of
\* the remote record delivered in that run, whatever rows earlier runs
\* left (the same rows when the same record is synced again).
C15_LineItemsReplaced ==
  (lastTx.id # 0 /\ lastTx.failAt = "none") =>
    LET rows == transactionItems[lastTx.id]
        elements == lastTx.order.lineItems
    IN /\ Len(rows) = Len(elements)
       /\ \A i \in 1..Len(rows) :
            /\ rows[i].unit_price_cents = elements[i].price
            /\ rows[i].clover_item_id = elements[i].item

C15_Witness ==
  /\ lastTx.id # 0
  /\ lastTx.failAt = "none"
  /\ Len(lastTx.oldItems) = 2
  /\ Len(lastTx.order.lineItems) = 1
  /\ Len(transactionItems[lastTx.id]) = 1
  /\ transactionItems[lastTx.id][1].unit_price_cents = 10

\* C16: for every order syncOrders wrote, total_cents = subtotal_cents +
\* tax_cents - discount_cents, with the total taken from the remote total,
\* the subtotal the sum of the line-item prices, discount 0 and the tax
\* derived as total - subtotal - discount.
C16_TotalsInvariant ==
  \A k \in OrderIds :
    transactions[k].present =>
      /\ transactions[k].total_cents =
           transactions[k].subtotal_cents + transactions[k].tax_cents
             - transactions[k].discount_cents
      /\ transactions[k].discount_cents = 0
      /\ transactions[k].subtotal_cents =
           SumSeq([i \in 1..Len(transactionItems[k]) |->
                     transactionItems[k][i].unit_price_cents])
      /\ transactions[k].tax_cents =
           transactions[k].total_cents - transactions[k].subtotal_cents
             - transactions[k].discount_cents

\* C17: the completion timestamp is never cleared: once completed_at of an
\* order is non-null it is non-null after every later step, whatever
\* payment state the remote record shows.
C17_CompletedAtNeverCleared ==
  [][\A k \in RowKeys :
       transactions[k].completed_at # Null =>
         transactions'[k].completed_at # Null]_vars

C17_Witness ==
  /\ lastTx.id # 0
  /\ lastTx.failAt = "none"
  /\ lastTx.oldRow.completed_at # Null
  /\ lastTx.order.paymentState = "OPEN"
  /\ transactions[lastTx.id].completed_at = lastTx.oldRow.completed_at

\* C18: completed_at is non-null only for orders some sync saw as PAID,
\* and a later sync of an order that is still PAID leaves the stored
\* completed_at as it was.
C18_FirstPaidTimeKept ==
  /\ \A k \in OrderIds :
       transactions[k].completed_at # Null => k \in paidSeen
  /\ (/\ lastTx.id # 0
      /\ lastTx.failAt = "none"
      /\ lastTx.oldRow.completed_at # Null
      /\ lastTx.order.paymentState = "PAID") =>
       transactions[lastTx.id].completed_at = lastTx.oldRow.completed_at

\* the reconciliation step of a run
ReconcileStep == opc = "reconcile" /\ opc' = "recv"

\* rows whose status the step turns into 'delete'
Tombstoned(before, after) ==
  {k \in RowKeys : before[k].status # "delete" /\ after[k].status = "delete"}

\* C19: after a sync with prune=true whose sweep returned a non-empty set R
\* of order ids, the rows the run tombstones are exactly those with a
\* non-null external order id not in R and a status other than 'delete';
\* every order in R is left as it was, and marked_for_delete is the number
\* of rows tombstoned.
C19_PruneExact ==
  [][(ReconcileStep /\ prune /\ cloverOrderIds # {}) =>
       LET R == cloverOrderIds
           expected == {k \in RowKeys :
                          /\ transactions[k].present
                          /\ transactions[k].clover_order_id # Null
                          /\ transactions[k].clover_order_id \notin R
                          /\ transactions[k].status # "delete"}
       IN /\ Tombstoned(transactions, transactions') = expected
          /\ \A k \in RowKeys \ expected : transactions'[k] = transactions[k]
          /\ \A k \in expected :
               transactions'[k] = [transactions[k] EXCEPT !.status = "delete"]
          /\ \A id \in R : transactions'[id] = transactions[id]
          /\ resp'.marked_for_delete =
               Cardinality(Tombstoned(transactions, transactions'))]_vars

C19_Witness ==
  /\ opc = "recv"
  /\ resp.kind = "orders"
  /\ prune
  /\ resp.marked_for_delete = 1
  /\ \E id \in cloverOrderIds :
       transactions[id].present /\ transactions[id].status # "delete"
  /\ \E k \in OrderIds \ cloverOrderIds : transactions[k].status = "delete"

\* C20: with prune=false the reconciliation step changes no order's status
\* and reports marked_for_delete = 0, and the unmatched count it reports is
\* the number of orders the step with prune=true would have tombstoned
\* from the same local and remote state.
C20_PreviewMatchesPrune ==
  [][(ReconcileStep /\ ~prune) =>
       /\ transactions' = transactions
       /\ resp'.marked_for_delete = 0
       /\ resp'.unmatched =
            Cardinality(Tombstoned(transactions,
               PruneOutcome(transactions, cloverOrderIds, TRUE).rows))
       /\ resp'.unmatched =
            PruneOutcome(transactions, cloverOrderIds, TRUE).marked]_vars

C20_Witness ==
  /\ opc = "recv"
  /\ resp.kind = "orders"
  /\ ~prune
  /\ resp.marked_for_delete = 0
  /\ resp.unmatched = 1
  /\ \E k \in OrderIds \ cloverOrderIds :
       transactions[k].present /\ transactions[k].status # "delete"

\* --------------------------------------------- getInventory: stock status
\* COALESCE(i.reorder_level, 5)
DefaultReorderLevel == 5
\* COALESCE(i.on_hand, 0)
DefaultOnHand == 0

\* COALESCE(column, default) over a nullable integer column
CoalesceInt(x, d) == IF x.null THEN d ELSE x.val

\* CASE WHEN COALESCE(i.on_hand, 0) <= 0 THEN 'OUT_OF_STOCK'
\*      WHEN COALESCE(i.on_hand, 0) <= COALESCE(i.reorder_level, 5)
\*        THEN 'LOW_STOCK'
\*      ELSE 'IN_STOCK' END
StockStatus_Exclusive(row) ==
  LET onHand == CoalesceInt(row.on_hand, DefaultOnHand)
      level == CoalesceInt(row.reorder_level, DefaultReorderLevel)
  IN IF onHand <= 0 THEN "OUT_OF_STOCK"
     ELSE IF onHand < level THEN "LOW_STOCK"
     ELSE "IN_STOCK"
StockStatus(row) ==
  LET onHand == CoalesceInt(row.on_hand, DefaultOnHand)
      level == CoalesceInt(row.reorder_level, DefaultReorderLevel)
  IN IF onHand <= 0 THEN "OUT_OF_STOCK"
     ELSE IF onHand <= level THEN "LOW_STOCK"
     ELSE "IN_STOCK"

\* a product row joined with its inventory row; the columns of a product
\* without an inventory row are NULL (LEFT JOIN)
StockInit ==
  /\ SyncInit
  /\ isCloverEnabled = FALSE
  /\ tokenRow = "none"
  /\ merchantRow = "missing"
  /\ remote = [ph \in Phases |-> 0]
  /\ RetryIdle
  /\ RouteIdle
  /\ OrderIdle
  /\ invRow \in [on_hand : Quantities, reorder_level : Quantities]
  /\ stockStatus = "none"
  /\ UpsertIdle
  /\ SideIdle

\* the SELECT of getInventory computes the status column of the row
GetInventory ==
  /\ stockStatus = "none"
  /\ stockStatus' = StockStatus(invRow)
  /\ UNCHANGED invRow

StockNext ==
  GetInventory
    /\ UNCHANGED <<syncVars, retryVars, routeVars, orderVars, upsertVars, sideVars>>

StockSpec == StockInit /\ [][StockNext]_vars

\* C26: for all integer on_hand and reorder_level the status is
\* OUT_OF_STOCK when on_hand <= 0, LOW_STOCK when 0 < on_hand <=
\* reorder_level (boundary included) and IN_STOCK otherwise; a product
\* without an inventory row counts as on_hand 0 and is OUT_OF_STOCK.
C26_StockStatus ==
  stockStatus # "none" =>
    /\ (~invRow.on_hand.null /\ ~invRow.reorder_level.null) =>
         LET h == invRow.on_hand.val
             r == invRow.reorder_level.val
         IN /\ h <= 0 => stockStatus = "OUT_OF_STOCK"
            /\ (0 < h /\ h <= r) => stockStatus = "LOW_STOCK"
            /\ (0 < h /\ h > r) => stockStatus = "IN_STOCK"
    /\ invRow.on_hand.null => stockStatus = "OUT_OF_STOCK"

C26_Witness ==
  /\ stockStatus = "LOW_STOCK"
  /\ ~invRow.on_hand.null
  /\ ~invRow.reorder_level.null
  /\ invRow.on_hand.val = invRow.reorder_level.val
  /\ invRow.on_hand.val = DefaultReorderLevel

\* ------------------------------------------ syncOrders: inserted / updated
\* the counters a handled order adds to
InsertedBy == ordCounts'.inserted - ordCounts.inserted
UpdatedBy == ordCounts'.updated - ordCounts.updated

\* C25 as stated: every delivered order increments inserted iff no local
\* row for its clover_order_id existed before its upsert and increments
\* updated otherwise, and the stored status is the remote state of the
\* latest sync.
C25_EveryOrderClassified ==
  [][OrderTxStep =>
       LET id == lastTx'.id
       IN /\ ~transactions[id].present => InsertedBy = 1 /\ UpdatedBy = 0
          /\ transactions[id].present => InsertedBy = 0 /\ UpdatedBy = 1
          /\ transactions'[id].status = lastTx'.order.state]_vars

\* C25 amended: every delivered order whose upsert statement succeeds
\* increments inserted iff no local row for its clover_order_id existed
\* before the upsert and increments updated otherwise; the stored status
\* is the remote state of the latest sync that committed the order.
C25_UpsertedOrderClassified ==
  [][OrderTxStep =>
       LET id == lastTx'.id
       IN /\ lastTx'.failAt # "upsert" =>
               /\ ~transactions[id].present =>
                    InsertedBy = 1 /\ UpdatedBy = 0
               /\ transactions[id].present =>
                    InsertedBy = 0 /\ UpdatedBy = 1
          /\ lastTx'.failAt = "none" =>
               transactions'[id].status = lastTx'.order.state]_vars

\* a re-sync of an order the first run inserted: inserted 0, updated 1,
\* and the status follows the remote state
C25_Witness ==
  /\ run = 2
  /\ lastTx.id # 0
  /\ lastTx.failAt = "none"
  /\ lastTx.oldRow.present
  /\ lastTx.oldRow.status # lastTx.order.state
  /\ ordCounts.inserted = 0
  /\ ordCounts.updated = 1
  /\ transactions[lastTx.id].status = lastTx.order.state

\* ------------------------------------------- syncOrders: the empty sweep
\* C29: with pruning requested, after a remote sweep that returned zero
\* orders, every local order with a non-null external order id and a
\* status other than 'delete' is updated to the tombstone status.
C29_EmptySweepTombstonesAll ==
  [][(ReconcileStep /\ prune /\ cloverOrders = <<>>) =>
       \A k \in RowKeys :
         (/\ transactions[k].present
          /\ transactions[k].clover_order_id # Null
          /\ transactions[k].status # "delete") =>
           transactions'[k].status = "delete"]_vars

\* ------------------------------------------- syncOrders: the tombstone
\* C22: once an order row has status 'delete', no later step of syncOrders
\* gives it another status, also when the order shows up again in the
\* remote sweep.
C22_TombstoneTerminal ==
  [][\A k \in RowKeys :
       transactions[k].status = "delete" =>
         transactions'[k].status = "delete"]_vars

\* ------------------------------------- both syncs: rows are never removed
\* a server that serves a full sync or order syncs
AllSyncInit == Init \/ OrderInit

AllSyncNext == Next \/ OrderNext

AllSyncSpec == AllSyncInit /\ [][AllSyncNext]_vars

\* C21: no step of performFullSync removes a committed category, product
\* or inventory row, and no step of syncOrders, with or without pruning,
\* removes an order row or changes its key: the sets of primary keys
\* only grow.
C21_NoHardDelete ==
  [][/\ \A ph \in Phases : committed[ph] \subseteq committed'[ph]
     /\ \A k \in RowKeys :
          transactions[k].present =>
            /\ transactions'[k].present
            /\ transactions'[k].clover_order_id =
                 transactions[k].clover_order_id]_vars

\* a pruning run has marked an order the sweep did not deliver: its row
\* is still there
C21_Witness ==
  /\ opc = "recv"
  /\ resp.kind = "orders"
  /\ prune
  /\ resp.marked_for_delete >= 1
  /\ \E k \in OrderIds \ cloverOrderIds :
       /\ transactions[k].present
       /\ transactions[k].status = "delete"
       /\ k # GoneKey

\* --------------------------------------------- syncOrders: idempotence
\* C23: a sync that repeats the one before it (same options, unchanged
\* remote data) inserts nothing and leaves every order row and every
\* line item as the first run left them.
C23_SecondRunNoOp ==
  [][(repeatRun /\ opc \in {"handle", "reconcile"}) =>
       /\ ordCounts'.inserted = 0
       /\ transactions' = transactions
       /\ transactionItems' = transactionItems]_vars

\* ------------------------------------------ POST /orders: the proxy switch
\* the server is up with any value of VERCEL_BASE_URL and serves its last
\* request: the request counter is at MaxRuns - 1, the order tables are
\* those of OrderFresh
ProxyInit ==
  /\ SyncConfig
  /\ remote = [ph \in Phases |-> 0]
  /\ pc = "idle"
  /\ SyncFresh
  /\ RetryIdle
  /\ StockIdle
  /\ UpsertIdle
  /\ SideIdle
  /\ vercelBaseUrl \in EnvValues
  /\ route = "idle"
  /\ resp = NoResp
  /\ outbound = 0
  /\ opc = "recv"
  /\ run = MaxRuns - 1
  /\ prune = FALSE
  /\ cloverOrders = <<>>
  /\ ordOffset = 0
  /\ ordIdx = 0
  /\ cloverOrderIds = {}
  /\ ordCounts = ZeroOrdCounts
  /\ ordErrors = <<>>
  /\ transactions = [k \in RowKeys |->
        CASE k = LocalKey -> LocalRow [] k = GoneKey -> GoneRow [] OTHER -> NoRow]
  /\ transactionItems = [k \in RowKeys |->
        IF k \in {LocalKey, GoneKey} THEN <<CheckoutItem>> ELSE <<>>]
  /\ ordReqs = 0
  /\ lastTx = NoTx
  /\ paidSeen = {}
  /\ repeatRun = FALSE

ProxySpec == ProxyInit /\ [][OrderNext]_vars

\* VERCEL_BASE_URL is set and has a character that is not white space
NonBlank(v) == v.set /\ \E i \in 1..Len(v.chars) : v.chars[i] # " "

\* the handler of POST /orders takes a request
OrdersRequest == opc = "recv" /\ run' = run + 1

C28_MerchantTokenOnEveryRequest ==
  \A ph \in Phases : \A i \in 1..Len(reqLog[ph]) :
    reqLog[ph][i].auth = MerchantToken

\* ------------------------------------------- unresolvable references
\* a product upsert succeeded
ProductUpserted(id) ==
  id \notin upserted["products"] /\ id \in upserted'["products"]

\* C30: a product whose remote category has no local category row is
\* upserted with category_id null, and a line item whose remote item has
\* no local product row is inserted with product_id null; a resolvable
\* reference is stored as the local row's id; neither case adds an entry
\* to the error list.
C30_UnresolvedReferenceIsNull ==
  [][/\ \A id \in 1..MaxRecords :
          ProductUpserted(id) =>
            /\ errors' = errors
            /\ categoryIdSent'[id] =
                 IF CloverCategoryOf(id) \in committed["categories"]
                   THEN LocalId(CloverCategoryOf(id))
                   ELSE Null
     /\ (OrderTxStep /\ lastTx'.failAt = "none") =>
          /\ ordErrors' = ordErrors
          /\ \A i \in 1..Len(lastTx'.order.lineItems) :
               transactionItems'[lastTx'.id][i].product_id =
                 IF lastTx'.order.lineItems[i].item \in ProductItemIds
                   THEN LocalId(lastTx'.order.lineItems[i].item)
                   ELSE Null]_vars

\* an order was committed whose line items name an item without a local
\* product and no item at all: both rows have product_id null
C30_Witness ==
  /\ lastTx.id # 0
  /\ lastTx.failAt = "none"
  /\ ordErrors = <<>>
  /\ Len(transactionItems[lastTx.id]) = 2
  /\ transactionItems[lastTx.id][1].clover_item_id \notin ProductItemIds
  /\ transactionItems[lastTx.id][1].clover_item_id # Null
  /\ transactionItems[lastTx.id][1].product_id = Null
  /\ transactionItems[lastTx.id][2].clover_item_id = Null
  /\ transactionItems[lastTx.id][2].product_id = Null

\* ------------------------------------------------- upsert key uniqueness
\* merchants, external ids and column values the deliveries draw from
MerchantIds == {1, 2}
ExternalIds == 1..MaxKeys
\* the field of the remote record that feeds the mutable column
\* (category.name, item.code, order.state): blank or absent, or a text
ColumnValues == {"", "a"}

\* SQL NULL in a text column
NullText == "NULL"

\* the statement's parameter for the column: category.name ||
\* 'Unnamed Category', item.code || null, order.state
ColumnParam(t, v) ==
  CASE t = "categories" -> IF v = "" THEN "Unnamed Category" ELSE v
    [] t = "products" -> IF v = "" THEN NullText ELSE v
    [] OTHER -> v

\* ON CONFLICT (merchant_id, clover_id): the index of the row the unique
\* index on the two columns finds for the proposed row, 0 when there is
\* none
ConflictIndex_None(rows, merchantId, cloverId) == 0
ConflictIndex(rows, merchantId, cloverId) ==
  LET found == {i \in 1..Len(rows) : /\ rows[i].merchant_id = merchantId
                                     /\ rows[i].clover_id = cloverId}
  IN IF found = {} THEN 0 ELSE CHOOSE i \in found : TRUE

\* INSERT INTO t (merchant_id, clover_id, ...) VALUES (...)
\* ON CONFLICT (merchant_id, clover_id) DO UPDATE SET col = EXCLUDED.col
UpsertInto(rows, merchantId, cloverId, value) ==
  LET i == ConflictIndex(rows, merchantId, cloverId)
  IN IF i = 0
       THEN Append(rows, [merchant_id |-> merchantId, clover_id |-> cloverId,
                          col |-> value])
       ELSE [rows EXCEPT ![i].col = value]

\* the tables are empty and no other operation runs
UpsertInit ==
  /\ SyncInit
  /\ isCloverEnabled = FALSE
  /\ tokenRow = "none"
  /\ merchantRow = "missing"
  /\ remote = [ph \in Phases |-> 0]
  /\ RetryIdle
  /\ RouteIdle
  /\ OrderIdle
  /\ StockIdle
  /\ UpsertIdle
  /\ SideIdle

\* the sync of merchant m delivers a record to one of the tables: the
\* upsert statement of syncCategories, syncProducts or syncOrders
DeliverRecord(m) ==
  /\ statements < MaxStatements
  /\ statements' = statements + 1
  /\ \E t \in UpsertTables : \E id \in ExternalIds : \E v \in ColumnValues :
       tables' = [tables EXCEPT
                    ![t] = UpsertInto(@, m, id, ColumnParam(t, v))]

\* SELECT id FROM transactions WHERE merchant_id = $1 AND clover_order_id
\* NOT IN (seen) AND status != 'delete'
UnmatchedIds_AnyMerchant(rows, merchantId, seen) ==
  {i \in 1..Len(rows) : /\ rows[i].clover_id \notin seen
                         /\ rows[i].col # "delete"}
UnmatchedIds(rows, merchantId, seen) ==
  {i \in 1..Len(rows) : /\ rows[i].merchant_id = merchantId
                         /\ rows[i].clover_id \notin seen
                         /\ rows[i].col # "delete"}

\* the reconciliation of syncOrders for merchant m with prune=true, after
\* a sweep that collected the ids in seen: UPDATE transactions SET status
\* = 'delete' WHERE id IN (the ids the query returned)
PruneOrders(m) ==
  /\ statements < MaxStatements
  /\ statements' = statements + 1
  /\ \E seen \in (SUBSET ExternalIds) \ {{}} :
       LET rows == tables["transactions"]
           ids == UnmatchedIds(rows, m, seen)
       IN tables' = [tables EXCEPT !["transactions"] =
            [i \in 1..Len(rows) |->
               IF i \in ids THEN [rows[i] EXCEPT !.col = "delete"]
                             ELSE rows[i]]]

UpsertNext ==
  /\ \/ \E m \in MerchantIds : DeliverRecord(m)
     \/ \E m \in MerchantIds : PruneOrders(m)
  /\ UNCHANGED <<syncVars, retryVars, routeVars, orderVars, stockVars,
                 sideVars>>

UpsertSpec == UpsertInit /\ [][UpsertNext]_vars

\* C24: whatever records the syncs deliver, in whatever order and however
\* often, each of the tables categories, products and transactions holds
\* at most one row per (merchant, external id).
C24_OneRowPerKey ==
  \A t \in UpsertTables :
    \A i, j \in 1..Len(tables[t]) :
      (/\ tables[t][i].merchant_id = tables[t][j].merchant_id
       /\ tables[t][i].clover_id = tables[t][j].clover_id) => i = j

\* the same external id was delivered to products several times, with
\* different contents: one row, holding the last contents
C24_Witness ==
  /\ statements >= 2
  /\ tables["categories"] = <<>>
  /\ tables["transactions"] = <<>>
  /\ Len(tables["products"]) = 1
  /\ tables["products"][1].col = "a"

\* ------------------------------------------------- products: the SKU
\* C31: a product that has a non-empty local SKU keeps it when it is
\* synced again from a record whose SKU is blank or absent.
C31_SkuNotClobbered ==
  [][\A i \in 1..Len(tables["products"]) :
       tables["products"][i].col \notin {"", NullText} =>
         tables'["products"][i].col \notin {"", NullText}]_vars

\* ----------------------------------------- fetchPaged: the response body
\* the record sequences of a page: at most PageLimit records
RECURSIVE RecordSeqs(_)
RecordSeqs(n) ==
  IF n = 0 THEN {<<>>}
  ELSE LET shorter == RecordSeqs(n - 1)
       IN shorter \cup {Append(q, r) : q \in shorter, r \in {1, 2}}

\* the bodies a response can carry: none, a bare array, or an object whose
\* elements and items fields are absent, no array, or an array
Bodies ==
  LET absent == [tag |-> "absent", val |-> <<>>]
      fields == {absent, [tag |-> "other", val |-> <<>>]}
                  \cup {[tag |-> "array", val |-> q] :
                          q \in RecordSeqs(PageLimit)}
  IN {[kind |-> "null", arr |-> <<>>, elements |-> absent, items |-> absent]}
       \cup {[kind |-> "array", arr |-> q, elements |-> absent,
               items |-> absent] : q \in RecordSeqs(PageLimit)}
       \cup {[kind |-> "object", arr |-> <<>>, elements |-> e, items |-> i] :
               e \in fields, i \in fields}

\* const data = res.data || {};
\* const items = Array.isArray(data.elements) ? data.elements
\*             : Array.isArray(data.items) ? data.items
\*             : Array.isArray(data) ? data : [];
Normalize_ItemsFirst(body) ==
  IF body.kind = "null" THEN <<>>
  ELSE IF body.items.tag = "array" THEN body.items.val
  ELSE IF body.elements.tag = "array" THEN body.elements.val
  ELSE IF body.kind = "array" THEN body.arr
  ELSE <<>>
Normalize(body) ==
  IF body.kind = "null" THEN <<>>
  ELSE IF body.elements.tag = "array" THEN body.elements.val
  ELSE IF body.items.tag = "array" THEN body.items.val
  ELSE IF body.kind = "array" THEN body.arr
  ELSE <<>>

\* a response has arrived
EnvelopeInit ==
  /\ SyncInit
  /\ isCloverEnabled = FALSE
  /\ tokenRow = "none"
  /\ merchantRow = "missing"
  /\ remote = [ph \in Phases |-> 0]
  /\ RetryIdle
  /\ RouteIdle
  /\ OrderIdle
  /\ StockIdle
  /\ UpsertIdle
  /\ RunsIdle
  /\ LevelIdle
  /\ ConnIdle
  /\ \E b \in Bodies :
       envelope = [pc |-> "got", body |-> b, items |-> <<>>,
                   handed |-> <<>>, called |-> FALSE, last |-> FALSE]

\* one turn of fetchPaged's loop after the status check: the normalized
\* items, the empty-page break, the call of onBatch and the short-page
\* break
ReadBody ==
  /\ envelope.pc = "got"
  /\ LET page == Normalize(envelope.body)
     IN envelope' =
          [pc |-> "read", body |-> envelope.body, items |-> page,
           handed |-> IF PageIsEmpty(Len(page)) THEN <<>> ELSE page,
           called |-> ~PageIsEmpty(Len(page)),
           last |-> PageIsEmpty(Len(page)) \/ ShortPage(Len(page), PageLimit)]
  /\ UNCHANGED <<syncVars, retryVars, routeVars, orderVars, stockVars,
                 upsertVars, store, syncRun, stored, conn>>

EnvelopeSpec == EnvelopeInit /\ [][ReadBody]_vars

\* C32: the record sequence is the elements array if there is one, else
\* the items array, else the body itself if it is an array, else empty;
\* the handler gets exactly that sequence (when it is not empty) and the
\* exhaustion test compares the length of that sequence with the limit.
C32_EnvelopeNormalized ==
  envelope.pc = "read" =>
    LET b == envelope.body
        expected ==
          CASE b.kind = "object" /\ b.elements.tag = "array" -> b.elements.val
            [] b.kind = "object" /\ b.elements.tag # "array"
                 /\ b.items.tag = "array" -> b.items.val
            [] b.kind = "array" -> b.arr
            [] OTHER -> <<>>
    IN /\ envelope.items = expected
       /\ envelope.called = (expected # <<>>)
       /\ envelope.called => envelope.handed = expected
       /\ envelope.last = (Len(expected) < PageLimit)

\* a body with both fields: the elements array wins, the page is full
C32_Witness ==
  /\ envelope.pc = "read"
  /\ envelope.body.elements.tag = "array"
  /\ envelope.body.items.tag = "array"
  /\ envelope.body.elements.val # envelope.body.items.val
  /\ Len(envelope.body.elements.val) = PageLimit
  /\ envelope.handed = envelope.body.elements.val
  /\ ~envelope.last

\* ---------------------------------------------------------------- C34
\* C34: an order the sweep delivered whose transaction failed and was
\* rolled back is in the seen set all the same: the reconciliation of that
\* run leaves the local row the order had before untouched (it is not
\* set to 'delete'), and the rows the report counts as unmatched are the
\* untombstoned rows of orders the remote collection does not hold
C34_FailedOrderStillSeen ==
  [][(ReconcileStep /\ ordErrors # <<>>) =>
       /\ \A i \in 1..Len(ordErrors) :
            transactions'[ordErrors[i]] = transactions[ordErrors[i]]
       /\ resp'.unmatched =
            Cardinality({k \in RowKeys :
                           /\ transactions[k].present
                           /\ transactions[k].clover_order_id # Null
                           /\ transactions[k].status # "delete"
                           /\ \A j \in 1..Len(cloverOrders) :
                                cloverOrders[j].id # k})]_vars

\* a run with prune=true has returned its report; an order failed in it
\* whose row, inserted by the run before, is still there and untombstoned
C34_Witness ==
  /\ opc = "recv"
  /\ resp.kind = "orders"
  /\ prune
  /\ \E i \in 1..Len(ordErrors) :
       /\ transactions[ordErrors[i]].present
       /\ transactions[ordErrors[i]].status # "delete"

\* ---------------------------------------------------------------- C35
\* C35: in every returned report inserted + updated is the number of
\* orders whose transaction committed (the orders delivered less those in
\* errors), and processed = inserted + updated + the number of errors
C35_ReportMatchesCommitted ==
  (opc = "recv" /\ resp.kind = "orders") =>
    /\ resp.inserted + resp.updated = Len(cloverOrders) - Len(ordErrors)
    /\ resp.processed = resp.inserted + resp.updated + Len(ordErrors)

\* ------------------------------------------- two order syncs at a time
\* the shape of the remote order with the id
ShapeOf(id) == ((id - 1) % Len(OrderShapes)) + 1

\* the order a run is working on
CurrentOrder(p) == syncRun[p].page[syncRun[p].idx]

\* the row lock of the transactions row of the order: the upsert of
\* another connection's open transaction holds it until its COMMIT, and a
\* statement that writes the row waits for it
Blocked_Never(id, p) == FALSE
Blocked(id, p) ==
  \E q \in Runs \ {p} :
    /\ syncRun[q].pc \in {"delete", "items", "commit"}
    /\ CurrentOrder(q).id = id

\* both calls have been made, each with its prune option; the remote
\* collection holds some of the orders, and the local table has either no
\* row or a row for every order id (with line items of an earlier state)
RunsInit ==
  /\ SyncInit
  /\ isCloverEnabled = TRUE
  /\ tokenRow = "valid"
  /\ merchantRow = "ok"
  /\ remote = [ph \in Phases |-> 0]
  /\ RetryIdle
  /\ RouteIdle
  /\ OrderIdle
  /\ StockIdle
  /\ UpsertIdle
  /\ EnvelopeIdle
  /\ LevelIdle
  /\ ConnIdle
  /\ \E held \in SUBSET OrderIds : \E synced \in BOOLEAN :
       store = [rows |-> [k \in OrderIds |->
                           IF synced
                             THEN [present |-> TRUE, status |-> "open",
                                   items |-> <<[row |-> CheckoutItem,
                                                by |-> 0]>>]
                             ELSE NoLocal],
                upstream |-> [k \in OrderIds |->
                               IF k \in held THEN ShapeOf(k) ELSE 0],
                created |-> {}, changed |-> FALSE]
  /\ \E pr \in [Runs -> BOOLEAN] :
       syncRun = [p \in Runs |->
                   [NoRun EXCEPT !.pc = "fetch", !.prune = pr[p]]]

\* fetchPaged: the page at the run's offset of the remote collection as
\* it is now, and the empty-page break
SweepPage(p) ==
  /\ syncRun[p].pc = "fetch"
  /\ LET all == RemoteSeq(store.upstream, 1)
         off == syncRun[p].offset
         len == PageLen(Len(all), off, PageLimit)
     IN syncRun' = [syncRun EXCEPT ![p] =
          IF PageIsEmpty(len)
            THEN [@ EXCEPT !.pc = "select"]
            ELSE [@ EXCEPT !.pc = "upsert", !.idx = 1,
                           !.page = SubSeq(all, off + 1, off + len)]]
  /\ UNCHANGED store

\* BEGIN, cloverOrderIds.add and the upsert of the order row, which waits
\* while another transaction holds the row
UpsertOrder(p) ==
  /\ syncRun[p].pc = "upsert"
  /\ ~Blocked(CurrentOrder(p).id, p)
  /\ syncRun' = [syncRun EXCEPT ![p] =
       [@ EXCEPT !.pc = "delete",
                 !.seen = @ \cup {CurrentOrder(p).id},
                 !.status = CurrentOrder(p).state,
                 !.gone = {},
                 !.added = <<>>]]
  /\ UNCHANGED store

\* DELETE FROM transaction_items WHERE transaction_id = $1: the committed
\* line items of the order the statement sees
DeleteOrderItems(p) ==
  /\ syncRun[p].pc = "delete"
  /\ LET visible == store.rows[CurrentOrder(p).id].items
     IN syncRun' = [syncRun EXCEPT ![p] =
          [@ EXCEPT !.pc = IF CurrentOrder(p).lineItems = <<>>
                             THEN "commit" ELSE "items",
                    !.gone = {visible[i].by : i \in 1..Len(visible)}]]
  /\ UNCHANGED store

\* the INSERT of the next line item
InsertOrderItem(p) ==
  /\ syncRun[p].pc = "items"
  /\ LET elements == CurrentOrder(p).lineItems
         n == Len(syncRun[p].added) + 1
     IN syncRun' = [syncRun EXCEPT ![p] =
          [@ EXCEPT !.pc = IF n >= Len(elements) THEN "commit" ELSE "items",
                    !.added = Append(@, [row |-> ItemRow(elements[n]),
                                         by |-> p])]]
  /\ UNCHANGED store

\* COMMIT: the row with the status of the upsert, the line items less
\* the deleted ones, and the inserted ones; then the next order of the
\* page, or fetchPaged's short-page break and offset advance
CommitOrder(p) ==
  /\ syncRun[p].pc = "commit"
  /\ LET Kept(item) == item.by \notin syncRun[p].gone
     IN store' = [store EXCEPT !.rows[CurrentOrder(p).id] =
          [present |-> TRUE, status |-> syncRun[p].status,
           items |-> SelectSeq(@.items, Kept) \o syncRun[p].added]]
  /\ LET len == Len(syncRun[p].page)
     IN syncRun' = [syncRun EXCEPT ![p] =
          IF syncRun[p].idx < len
            THEN [@ EXCEPT !.pc = "upsert", !.idx = @ + 1]
            ELSE IF ShortPage(len, PageLimit)
              THEN [@ EXCEPT !.pc = "select"]
              ELSE [@ EXCEPT !.pc = "fetch", !.offset = @ + len]]

\* the reconciliation query of either branch, and the return when there
\* is nothing to update
SelectUnmatched(p) ==
  /\ syncRun[p].pc = "select"
  /\ LET seen == syncRun[p].seen
         found == IF seen = {} THEN {}
                  ELSE {k \in OrderIds : /\ store.rows[k].present
                                         /\ k \notin seen
                                         /\ store.rows[k].status # "delete"}
     IN syncRun' = [syncRun EXCEPT ![p] =
          [@ EXCEPT !.unmatched = found,
                    !.pc = IF syncRun[p].prune /\ found # {}
                             THEN "update" ELSE "done"]]
  /\ UNCHANGED store

\* UPDATE transactions SET status = 'delete' WHERE id IN (unmatchedIds),
\* which waits for the rows another transaction holds, and the return
UpdateUnmatched(p) ==
  /\ syncRun[p].pc = "update"
  /\ \A k \in syncRun[p].unmatched : ~Blocked(k, p)
  /\ store' = [store EXCEPT !.rows =
       [k \in OrderIds |->
          IF k \in syncRun[p].unmatched
            THEN [store.rows[k] EXCEPT !.status = "delete"]
            ELSE store.rows[k]]]
  /\ syncRun' = [syncRun EXCEPT ![p] = [@ EXCEPT !.pc = "done"]]

\* POST /api/checkout: createOrderAtomic makes a new order in the remote
\* collection
CheckoutCreate ==
  /\ \E id \in OrderIds :
       /\ store.upstream[id] = 0
       /\ ~store.rows[id].present
       /\ store' = [store EXCEPT !.upstream[id] = ShapeOf(id),
                                 !.created = @ \cup {id},
                                 !.changed = TRUE]
  /\ UNCHANGED syncRun

\* POST /api/checkout: the INSERT of the transactions row with the new
\* order's id, the INSERTs of its line items and COMMIT; when a sync has
\* inserted a row for the order the INSERT violates the unique index and
\* the checkout rolls back
CheckoutInsert ==
  /\ \E id \in store.created :
       /\ ~Blocked(id, 0)
       /\ store' = [store EXCEPT
            !.created = @ \ {id},
            !.rows[id] =
              IF @.present THEN @
              ELSE [present |-> TRUE,
                    status |-> OrderShapes[ShapeOf(id)].state,
                    items |-> [i \in 1..Len(OrderShapes[ShapeOf(id)].lineItems)
                                |-> [row |-> [ItemRow(OrderShapes[ShapeOf(id)].lineItems[i])
                                                EXCEPT !.product_id = Null],
                                     by |-> 0]]]]
  /\ UNCHANGED syncRun

RunsNext ==
  /\ \/ \E p \in Runs : SweepPage(p)
     \/ \E p \in Runs : UpsertOrder(p)
     \/ \E p \in Runs : DeleteOrderItems(p)
     \/ \E p \in Runs : InsertOrderItem(p)
     \/ \E p \in Runs : CommitOrder(p)
     \/ \E p \in Runs : SelectUnmatched(p)
     \/ \E p \in Runs : UpdateUnmatched(p)
     \/ CheckoutCreate
     \/ CheckoutInsert
  /\ UNCHANGED <<syncVars, retryVars, routeVars, orderVars, stockVars,
                 upsertVars, envelope, stored, conn>>

RunsSpec == RunsInit /\ [][RunsNext]_vars

\* ---------------------------------------------------------------- C36
\* C36: when both runs have finished and the remote collection did not
\* change meanwhile, every remote order has its local row, and the line
\* items of the row are exactly the line items of the remote order
C36_ConcurrentRunsConverge ==
  ((\A p \in Runs : syncRun[p].pc = "done") /\ ~store.changed) =>
    \A k \in OrderIds :
      store.upstream[k] # 0 =>
        /\ store.rows[k].present
        /\ [i \in 1..Len(store.rows[k].items) |-> store.rows[k].items[i].row]
             = ItemRows(OrderShapes[store.upstream[k]].lineItems)

\* both runs have finished on an unchanged remote collection that holds
\* every order, among them one with two line items, and the rows are there
C36_Witness ==
  /\ \A p \in Runs : syncRun[p].pc = "done" /\ syncRun[p].seen = OrderIds
  /\ ~store.changed
  /\ \E k \in OrderIds :
       /\ store.rows[k].present
       /\ Len(store.rows[k].items) = 2

\* ---------------------------------------------------------------- C37
\* C37: the reconciliation UPDATE of a run sets only rows to 'delete'
\* whose order is absent from the remote collection
C37_PruneOnlyAbsentUpstream ==
  [][\A k \in OrderIds :
       (store.rows[k].status # "delete" /\ store'.rows[k].status = "delete")
         => store.upstream[k] = 0]_vars

Counts == (0 - MaxQty)..MaxQty

\* x || 0
OrZero(x) == IF x = 0 THEN 0 ELSE x

\* CHECK(on_hand >= 0) of the inventory table that has the column on_hand
CheckOnHand(v) == v >= 0

\* Math.max(0, currentOnHand + on_hand_delta)
NewOnHand(current, delta) ==
  IF OrZero(current) + delta > 0 THEN OrZero(current) + delta ELSE 0

\* the inventory table is the one of either migration: with the columns
\* on_hand, reserved, reorder_level and their CHECKs, or with the columns
\* quantity_available, low_stock_threshold and no CHECK
LevelInit ==
  /\ SyncInit
  /\ isCloverEnabled = FALSE
  /\ tokenRow = "none"
  /\ merchantRow = "missing"
  /\ remote = [ph \in Phases |-> 0]
  /\ RetryIdle
  /\ RouteIdle
  /\ OrderIdle
  /\ StockIdle
  /\ UpsertIdle
  /\ EnvelopeIdle
  /\ RunsIdle
  /\ ConnIdle
  /\ \E schema \in {"on_hand", "quantity_available"} :
       stored = [schema |-> schema, qty |-> 0, op |-> "none",
                arg |-> 0]

\* a statement that names a column the table does not have, or whose row
\* violates a CHECK, fails and stores nothing
\* syncInventory: quantity_available = stock.quantity || 0
SyncInventory ==
  \E q \in Counts :
    stored' = [stored EXCEPT
                !.op = "sync", !.arg = q,
                !.qty = IF stored.schema = "quantity_available"
                          THEN OrZero(q) ELSE @]

\* POST /inventory of the webhooks: on_hand = item.stockCount || 0
InventoryWebhook ==
  \E c \in Counts :
    stored' = [stored EXCEPT
                !.op = "webhook", !.arg = c,
                !.qty = IF stored.schema = "on_hand" /\ CheckOnHand(OrZero(c))
                          THEN OrZero(c) ELSE @]

\* updateInventory: on_hand = the request's value
UpdateInventory ==
  \E v \in Counts :
    stored' = [stored EXCEPT
                !.op = "manual", !.arg = v,
                !.qty = IF stored.schema = "on_hand" /\ CheckOnHand(v)
                          THEN v ELSE @]

\* adjustInventory: on_hand = Math.max(0, on_hand + on_hand_delta)
AdjustInventory ==
  \E d \in Counts :
    /\ NewOnHand(stored.qty, d) <= MaxQty
    /\ stored' = [stored EXCEPT
                   !.op = "adjustment", !.arg = d,
                   !.qty = IF stored.schema = "on_hand"
                                /\ CheckOnHand(NewOnHand(stored.qty, d))
                             THEN NewOnHand(stored.qty, d) ELSE @]

LevelNext ==
  /\ \/ SyncInventory
     \/ InventoryWebhook
     \/ UpdateInventory
     \/ AdjustInventory
  /\ UNCHANGED <<syncVars, retryVars, routeVars, orderVars, stockVars,
                 upsertVars, envelope, store, syncRun, conn>>

LevelSpec == LevelInit /\ [][LevelNext]_vars

\* ---------------------------------------------------------------- C33
\* C33: the stored on-hand quantity of a product is never negative,
\* whatever syncs, webhooks, manual updates and adjustments wrote it
C33_OnHandNeverNegative == stored.qty >= 0

\* ------------------------------------- the statements of a connection
\* the functions that take a connection for a whole sweep: syncOrders, and
\* a phase of syncService (syncCategories, syncProducts, syncInventory)
ConnKinds == {"orders", "phase"}

\* the statements of one record: the upsert, the delete and an insert of
\* syncOrders; the upsert of a phase
StatementsOf(kind) == IF kind = "orders" THEN 3 ELSE 1

\* where a rejected page request leaves the function: syncOrders has no
\* transaction open between two orders and its catch only rethrows; the
\* catch of a phase sends ROLLBACK
OnFetchFailure_Release(kind) == "release"
OnFetchFailure(kind) == IF kind = "orders" THEN "release" ELSE "rollback"

\* after a record: the next record of the page, or fetchPaged's
\* short-page break and offset advance
AfterRecord(c) ==
  LET len == PageLen(c.total, c.offset, PageLimit)
  IN IF c.left > 1
       THEN [c EXCEPT !.left = @ - 1, !.k = 1,
                      !.pc = IF c.kind = "orders" THEN "begin" ELSE "statement"]
       ELSE IF ShortPage(len, PageLimit)
         THEN [c EXCEPT !.left = 0,
                        !.pc = IF c.kind = "orders" THEN "reconcile" ELSE "commit"]
         ELSE [c EXCEPT !.left = 0, !.pc = "fetch", !.offset = @ + len]

\* the function is entered; the remote collection has some records
ConnInit ==
  /\ SyncInit
  /\ isCloverEnabled = FALSE
  /\ tokenRow = "none"
  /\ merchantRow = "missing"
  /\ remote = [ph \in Phases |-> 0]
  /\ RetryIdle
  /\ RouteIdle
  /\ OrderIdle
  /\ StockIdle
  /\ UpsertIdle
  /\ EnvelopeIdle
  /\ RunsIdle
  /\ LevelIdle
  /\ \E kind \in ConnKinds : \E total \in 0..MaxRecords :
       conn = [kind |-> kind, pc |-> "connect", tx |-> "none",
               total |-> total, offset |-> 0, left |-> 0, k |-> 0,
               log |-> <<>>]

\* const client = await db.connect()
Connect ==
  /\ conn.pc = "connect"
  /\ conn' = [conn EXCEPT !.log = Append(@, "connect"),
                          !.pc = IF conn.kind = "orders" THEN "fetch"
                                                         ELSE "begin"]

\* client.query('BEGIN'): of the order in syncOrders, of the sweep in a
\* phase
BeginTx ==
  /\ conn.pc = "begin"
  /\ conn' = [conn EXCEPT !.log = Append(@, "BEGIN"),
                          !.tx = "open",
                          !.k = 1,
                          !.pc = IF conn.kind = "orders" THEN "statement"
                                                         ELSE "fetch"]

\* fetchPaged: one page request; it is rejected, or the page is empty, or
\* the handler is called with the page
FetchBatch ==
  /\ conn.pc = "fetch"
  /\ \E rejected \in BOOLEAN :
       LET len == PageLen(conn.total, conn.offset, PageLimit)
       IN conn' =
            IF rejected
              THEN [conn EXCEPT !.pc = OnFetchFailure(conn.kind)]
              ELSE IF PageIsEmpty(len)
                THEN [conn EXCEPT !.pc = IF conn.kind = "orders"
                                           THEN "reconcile" ELSE "commit"]
                ELSE [conn EXCEPT !.left = len, !.k = 1,
                                  !.pc = IF conn.kind = "orders"
                                           THEN "begin" ELSE "statement"]

\* a statement of the record's try block: it succeeds or throws (in an
\* aborted block it throws); syncOrders' catch goes on to ROLLBACK, the
\* catch of a phase records the error and the loop goes on
RunStatement ==
  /\ conn.pc = "statement"
  /\ \E throws \in BOOLEAN :
       /\ conn.tx = "aborted" => throws
       /\ LET sent == [conn EXCEPT !.log = Append(@, "statement"),
                                   !.tx = IF throws THEN "aborted" ELSE @]
          IN conn' =
               IF conn.kind = "orders"
                 THEN IF throws THEN [sent EXCEPT !.pc = "rollback"]
                      ELSE IF conn.k < StatementsOf(conn.kind)
                        THEN [sent EXCEPT !.k = @ + 1]
                        ELSE [sent EXCEPT !.pc = "commit"]
                 ELSE AfterRecord(sent)

\* client.query('COMMIT')
CommitTx ==
  /\ conn.pc = "commit"
  /\ LET sent == [conn EXCEPT !.log = Append(@, "COMMIT"), !.tx = "none"]
     IN conn' = IF conn.kind = "orders" THEN AfterRecord(sent)
                                        ELSE [sent EXCEPT !.pc = "release"]

\* client.query('ROLLBACK')
RollbackTx ==
  /\ conn.pc = "rollback"
  /\ LET sent == [conn EXCEPT !.log = Append(@, "ROLLBACK"), !.tx = "none"]
     IN conn' = IF conn.kind = "orders" THEN AfterRecord(sent)
                                        ELSE [sent EXCEPT !.pc = "release"]

\* the reconciliation queries of syncOrders
ReconcileQueries ==
  /\ conn.pc = "reconcile"
  /\ conn' = [conn EXCEPT !.log = Append(@, "reconcile"), !.pc = "release"]

\* finally { client.release() }
Release ==
  /\ conn.pc = "release"
  /\ conn' = [conn EXCEPT !.log = Append(@, "release"), !.pc = "done"]

ConnNext ==
  /\ \/ Connect
     \/ BeginTx
     \/ FetchBatch
     \/ RunStatement
     \/ CommitTx
     \/ RollbackTx
     \/ ReconcileQueries
     \/ Release
  /\ UNCHANGED <<syncVars, retryVars, routeVars, orderVars, stockVars,
                 upsertVars, envelope, store, syncRun, stored>>

ConnSpec == ConnInit /\ [][ConnNext]_vars

\* ---------------------------------------------------------------- C39
\* what was sent from position i on keeps the brackets: BEGIN only with
\* no bracket open, COMMIT and ROLLBACK only to close the open bracket,
\* a statement only inside a bracket, the reconciliation queries and the
\* release only outside, and nothing after the release
RECURSIVE Bracketed(_, _, _)
Bracketed(log, i, open) ==
  IF i > Len(log) THEN TRUE
  ELSE CASE log[i] = "connect" -> i = 1 /\ Bracketed(log, i + 1, FALSE)
         [] log[i] = "BEGIN" -> ~open /\ Bracketed(log, i + 1, TRUE)
         [] log[i] \in {"COMMIT", "ROLLBACK"} ->
              open /\ Bracketed(log, i + 1, FALSE)
         [] log[i] = "statement" -> open /\ Bracketed(log, i + 1, open)
         [] log[i] = "reconcile" -> ~open /\ Bracketed(log, i + 1, open)
         [] log[i] = "release" -> ~open /\ i = Len(log)
         [] OTHER -> FALSE

\* C39: on every path of syncOrders and of a phase the connection sees
\* each BEGIN closed by exactly one COMMIT or ROLLBACK before the next
\* BEGIN and before the release, no statement outside a bracket but the
\* reconciliation queries, and the release exactly once, at the end
C39_ConnectionHygiene ==
  /\ Bracketed(conn.log, 1, FALSE)
  /\ conn.pc = "done" =>
       /\ conn.log[Len(conn.log)] = "release"
       /\ conn.tx = "none"

\* a phase has ended whose page request was rejected after a record's
\* statement had failed: ROLLBACK, then the release
C39_Witness ==
  /\ conn.pc = "done"
  /\ conn.kind = "phase"
  /\ conn.offset > 0
  /\ \E i \in 1..Len(conn.log) : conn.log[i] = "statement"
  /\ conn.log[Len(conn.log) - 1] = "ROLLBACK"

====
